---------------------------- MODULE Spec2Model ----------------------------
(***************************************************************************)
(* Verification model of the Omni-Genesis emotion/logic balancing engine:  *)
(* GoldenRatioAnalyzer (services/golden_ratio.py), ThaiNLPEngine           *)
(* (services/thai_nlp.py) and their callers.                               *)
(*                                                                         *)
(* Python floats are IEEE-754 binary64.  They are modelled exactly: a      *)
(* float is a record with a sign, a 53-bit significand and a binary        *)
(* exponent, and every arithmetic operation computes the exact result and  *)
(* rounds it to nearest, ties to even, as the hardware does.  TLC's        *)
(* integers are 32 bits wide, so significands are kept as little-endian    *)
(* sequences of 14-bit limbs.  Exponent range limits (overflow to inf,     *)
(* subnormals) and the sign of zero are not modelled: no input of the      *)
(* model comes near them, and Python's == does not tell -0.0 from 0.0.     *)
(***************************************************************************)
EXTENDS Integers, Sequences, FiniteSets, TLC

(***************************************************************************)
(* Natural numbers of any size: little-endian sequences of 14-bit limbs    *)
(* without leading zero limbs; <<>> is 0.                                  *)
(***************************************************************************)
LimbBits == 14 + 0
LimbBase == 2^14

RECURSIVE BNorm(_)
BNorm(a) ==
    IF a = <<>> THEN a
    ELSE IF a[Len(a)] = 0 THEN BNorm(SubSeq(a, 1, Len(a) - 1)) ELSE a

RECURSIVE BFromInt(_)
BFromInt(n) ==
    IF n = 0 THEN <<>> ELSE <<n % LimbBase>> \o BFromInt(n \div LimbBase)

RECURSIVE BAddC(_, _, _)
BAddC(a, b, c) ==
    IF a = <<>> /\ b = <<>> THEN (IF c = 0 THEN <<>> ELSE <<c>>)
    ELSE LET x == (IF a = <<>> THEN 0 ELSE Head(a))
                  + (IF b = <<>> THEN 0 ELSE Head(b)) + c
         IN  <<x % LimbBase>>
             \o BAddC(IF a = <<>> THEN a ELSE Tail(a),
                      IF b = <<>> THEN b ELSE Tail(b), x \div LimbBase)

BAdd(a, b) == BAddC(a, b, 0)

\* a - b for a >= b
RECURSIVE BSubC(_, _, _)
BSubC(a, b, c) ==
    IF a = <<>> THEN <<>>
    ELSE LET x == Head(a) - (IF b = <<>> THEN 0 ELSE Head(b)) - c
         IN  <<x % LimbBase>>
             \o BSubC(Tail(a), IF b = <<>> THEN b ELSE Tail(b),
                      IF x < 0 THEN 1 ELSE 0)

BSub(a, b) == BNorm(BSubC(a, b, 0))

\* -1, 0, 1 as a < b, a = b, a > b
RECURSIVE BCmp(_, _)
BCmp(a, b) ==
    IF Len(a) # Len(b) THEN (IF Len(a) < Len(b) THEN -1 ELSE 1)
    ELSE IF a = <<>> THEN 0
    ELSE IF a[Len(a)] # b[Len(b)] THEN (IF a[Len(a)] < b[Len(b)] THEN -1 ELSE 1)
    ELSE BCmp(BNorm(SubSeq(a, 1, Len(a) - 1)), BNorm(SubSeq(b, 1, Len(b) - 1)))

\* a * k for 0 <= k < 2^16
RECURSIVE BMulSmallC(_, _, _)
BMulSmallC(a, k, c) ==
    IF a = <<>> THEN BFromInt(c)
    ELSE LET x == Head(a) * k + c
         IN  <<x % LimbBase>> \o BMulSmallC(Tail(a), k, x \div LimbBase)

BMulSmall(a, k) == IF k = 0 THEN <<>> ELSE BMulSmallC(a, k, 0)

Zeros(n) == [i \in 1..n |-> 0]

RECURSIVE BMul(_, _)
BMul(a, b) ==
    IF a = <<>> \/ b = <<>> THEN <<>>
    ELSE BAdd(BMulSmall(a, Head(b)),
              LET r == BMul(a, Tail(b)) IN IF r = <<>> THEN r ELSE <<0>> \o r)

\* a * 2^s
BShl(a, s) ==
    IF a = <<>> THEN a
    ELSE Zeros(s \div LimbBits) \o BMulSmall(a, 2^(s % LimbBits))

\* floor(a / 2^s)
BShr(a, s) ==
    LET q == s \div LimbBits
        r == s % LimbBits
        n == Len(a) - q
    IN  IF n <= 0 THEN <<>>
        ELSE BNorm([i \in 1..n |->
                 (a[i + q] \div 2^r)
                 + (IF i + q < Len(a)
                    THEN (a[i + q + 1] % 2^r) * 2^(LimbBits - r) ELSE 0)])

\* bit i (from 0) of a
BBit(a, i) ==
    IF i < 0 \/ i \div LimbBits >= Len(a) THEN 0
    ELSE (a[i \div LimbBits + 1] \div 2^(i % LimbBits)) % 2

\* a mod 2^s # 0
BLowBits(a, s) ==
    \E i \in 1..Len(a) :
        /\ a[i] # 0
        /\ \/ i <= s \div LimbBits
           \/ i = s \div LimbBits + 1 /\ a[i] % 2^(s % LimbBits) # 0

RECURSIVE IntBitLen(_)
IntBitLen(n) == IF n = 0 THEN 0 ELSE 1 + IntBitLen(n \div 2)

BBitLen(a) ==
    IF a = <<>> THEN 0 ELSE LimbBits * (Len(a) - 1) + IntBitLen(a[Len(a)])

\* a / 2^s rounded to the nearest integer, ties to even
BShrRound(a, s) ==
    IF s <= 0 THEN BShl(a, -s)
    ELSE LET q == BShr(a, s)
             up == BBit(a, s - 1) = 1 /\ (BLowBits(a, s - 1) \/ BBit(q, 0) = 1)
         IN  IF up THEN BAdd(q, <<1>>) ELSE q

(***************************************************************************)
(* binary64 values.                                                        *)
(***************************************************************************)
MantBits == 50 + 3

NaN == [k |-> "nan", neg |-> FALSE, m |-> <<>>, ex |-> 0]
Zero == [k |-> "fin", neg |-> FALSE, m |-> <<>>, ex |-> 0]
\* the outcome of an expression that raised ZeroDivisionError
ZeroDivisionError == [k |-> "raise", neg |-> FALSE, m |-> <<>>, ex |-> 0]

IsNaN(x) == x.k # "fin"
IsZero(x) == x.k = "fin" /\ x.m = <<>>
\* the result of an operation on a nan or on a raised operand
Propagate(x, y) ==
    IF x.k = "raise" \/ y.k = "raise" THEN ZeroDivisionError ELSE NaN

\* (-1)^neg * big * 2^ex rounded to the nearest binary64
RoundBig(neg, big, ex) ==
    IF big = <<>> THEN Zero
    ELSE LET s == BBitLen(big) - MantBits
             q == BShrRound(big, s)
         IN  IF BBitLen(q) > MantBits
             THEN [k |-> "fin", neg |-> neg, m |-> BShr(q, 1), ex |-> ex + s + 1]
             ELSE [k |-> "fin", neg |-> neg, m |-> q, ex |-> ex + s]

FromInt(n) == RoundBig(n < 0, BFromInt(IF n < 0 THEN -n ELSE n), 0)

FNeg(x) == IF IsNaN(x) \/ IsZero(x) THEN x ELSE [x EXCEPT !.neg = ~x.neg]
FAbs(x) == IF IsNaN(x) THEN x ELSE [x EXCEPT !.neg = FALSE]

\* -1, 0, 1 for two finite values
MagCmp(x, y) ==
    IF IsZero(x) \/ IsZero(y)
    THEN (IF IsZero(x) /\ IsZero(y) THEN 0 ELSE IF IsZero(x) THEN -1 ELSE 1)
    ELSE IF x.ex # y.ex THEN (IF x.ex < y.ex THEN -1 ELSE 1)
    ELSE BCmp(x.m, y.m)

FCmp(x, y) ==
    IF x.neg # y.neg THEN (IF x.neg THEN -1 ELSE 1)
    ELSE IF x.neg THEN MagCmp(y, x) ELSE MagCmp(x, y)

\* Python's comparisons: every comparison with nan is False
FLt(x, y) == ~IsNaN(x) /\ ~IsNaN(y) /\ FCmp(x, y) < 0
FLe(x, y) == ~IsNaN(x) /\ ~IsNaN(y) /\ FCmp(x, y) <= 0
FGt(x, y) == FLt(y, x)
FGe(x, y) == FLe(y, x)
FEq(x, y) == ~IsNaN(x) /\ ~IsNaN(y) /\ FCmp(x, y) = 0

FMul(x, y) ==
    IF IsNaN(x) \/ IsNaN(y) THEN Propagate(x, y)
    ELSE RoundBig(x.neg # y.neg, BMul(x.m, y.m), x.ex + y.ex)

\* the gap between exponents beyond which the smaller operand is only sticky
AlignGap == 64 + 0

FAdd(x, y) ==
    IF IsNaN(x) \/ IsNaN(y) THEN Propagate(x, y)
    ELSE IF IsZero(x) THEN y
    ELSE IF IsZero(y) THEN x
    ELSE LET far == x.ex - y.ex > AlignGap \/ y.ex - x.ex > AlignGap
             e == IF far THEN (IF x.ex > y.ex THEN x.ex ELSE y.ex) - AlignGap
                  ELSE IF x.ex < y.ex THEN x.ex ELSE y.ex
             a == IF far /\ x.ex < y.ex THEN <<1>> ELSE BShl(x.m, x.ex - e)
             b == IF far /\ y.ex < x.ex THEN <<1>> ELSE BShl(y.m, y.ex - e)
             c == BCmp(a, b)
         IN  IF x.neg = y.neg THEN RoundBig(x.neg, BAdd(a, b), e)
             ELSE IF c = 0 THEN Zero
             ELSE IF c > 0 THEN RoundBig(x.neg, BSub(a, b), e)
             ELSE RoundBig(y.neg, BSub(b, a), e)

FSub(x, y) == FAdd(x, FNeg(y))

\* The limbs of a little-endian sequence of bits
BitAt(b, j) == IF j <= Len(b) THEN b[j] ELSE 0

BFromBits(b) ==
    BNorm([i \in 1..((Len(b) + LimbBits - 1) \div LimbBits) |->
        LET o == LimbBits * (i - 1)
        IN  BitAt(b, o + 1) + 2 * BitAt(b, o + 2) + 4 * BitAt(b, o + 3)
            + 8 * BitAt(b, o + 4) + 16 * BitAt(b, o + 5) + 32 * BitAt(b, o + 6)
            + 64 * BitAt(b, o + 7) + 128 * BitAt(b, o + 8)
            + 256 * BitAt(b, o + 9) + 512 * BitAt(b, o + 10)
            + 1024 * BitAt(b, o + 11) + 2048 * BitAt(b, o + 12)
            + 4096 * BitAt(b, o + 13) + 8192 * BitAt(b, o + 14)])

\* A 53-bit significand as two 28-bit halves
HalfBase == 2^28
Hi(m) == m[4] * LimbBase + m[3]
Lo(m) == m[2] * LimbBase + m[1]

\* Long division: the n bits after the binary point of r / d for r < d,
\* little-endian, below them one sticky bit (the remainder is not 0);
\* r = rh * 2^28 + rl and d = dh * 2^28 + dl
RECURSIVE DivBits(_, _, _, _, _)
DivBits(rh, rl, dh, dl, n) ==
    IF n = 0 THEN <<IF rh = 0 /\ rl = 0 THEN 0 ELSE 1>>
    ELSE LET l2 == (2 * rl) % HalfBase
             h2 == 2 * rh + (2 * rl) \div HalfBase
             ge == h2 > dh \/ (h2 = dh /\ l2 >= dl)
         IN  IF ge
             THEN DivBits(h2 - dh - (IF l2 < dl THEN 1 ELSE 0),
                          (l2 - dl) % HalfBase, dh, dl, n - 1) \o <<1>>
             ELSE DivBits(h2, l2, dh, dl, n - 1) \o <<0>>

\* x / y; float division by zero raises
FDiv(x, y) ==
    IF x.k = "raise" \/ y.k = "raise" \/ IsZero(y) THEN ZeroDivisionError
    ELSE IF IsNaN(x) \/ IsNaN(y) THEN NaN
    ELSE IF IsZero(x) THEN Zero
    ELSE LET ge == BCmp(x.m, y.m) >= 0
             r == IF ge THEN BSubC(x.m, y.m, 0) ELSE x.m
             bits == DivBits(Hi(r), Lo(r), Hi(y.m), Lo(y.m), MantBits + 2)
                     \o <<IF ge THEN 1 ELSE 0>>
         IN  RoundBig(x.neg # y.neg, BFromBits(bits),
                      x.ex - y.ex - (MantBits + 3))

\* Python's round(x, n) for n >= 0: the decimal with n places nearest to x
\* (ties to even), converted back to the nearest binary64
FRound(x, n) ==
    IF IsNaN(x) \/ IsZero(x) \/ x.ex + n >= 0 THEN x
    ELSE LET d == BShrRound(BMul(x.m, BFromInt(5^n)), -(x.ex + n))
         IN  FDiv(RoundBig(x.neg, d, 0), FromInt(10^n))

\* decimal literal: (hi * 10^8 + lo) / 10^places
Dec(hi, lo, places) ==
    LET num == BAdd(BMul(BFromInt(hi), BFromInt(10^8)), BFromInt(lo))
        den == BMul(BFromInt(10^(IF places > 8 THEN places - 8 ELSE 0)),
                    BFromInt(10^(IF places > 8 THEN 8 ELSE places)))
    IN  FDiv(RoundBig(FALSE, num, 0), RoundBig(FALSE, den, 0))

\* Python's min(a, b) and max(a, b): the first argument unless the second
\* compares smaller (greater)
PyMin(a, b) == IF FLt(b, a) THEN b ELSE a
PyMax(a, b) == IF FGt(b, a) THEN b ELSE a

One == FromInt(1)
Two == FromInt(2)

(***************************************************************************)
(* services/golden_ratio.py                                                *)
(***************************************************************************)
PHI == Dec(16180339, 88749895, 15)

\* Mutant: the logic weight taken from the module constant LOGIC_WEIGHT
\* (1 - 1/PHI) instead of being derived from the phi given.
GoldenRatioAnalyzer_constant_logic_weight(phi, balance_threshold) ==
    [phi |-> phi,
     emotion_weight |-> FDiv(One, phi),
     logic_weight |-> FSub(One, FDiv(One, PHI)),
     balance_threshold |-> balance_threshold]

\* GoldenRatioAnalyzer.__init__
GoldenRatioAnalyzer(phi, balance_threshold) ==
    LET emotion_weight == FDiv(One, phi)
    IN  [phi |-> phi,
         emotion_weight |-> emotion_weight,
         logic_weight |-> FSub(One, emotion_weight),
         balance_threshold |-> balance_threshold]

\* Mutant: the zero-logic special case left out.
calculate_balance_index_unguarded(self, emotion_score, logic_score) ==
    FDiv(FSub(FDiv(emotion_score, logic_score), self.phi), self.phi)

\* Mutant: the deviation is not divided by the ideal ratio.
calculate_balance_index_absolute(self, emotion_score, logic_score) ==
    IF FEq(logic_score, Zero)
    THEN (IF FGt(emotion_score, Zero) THEN One ELSE Zero)
    ELSE FSub(FDiv(emotion_score, logic_score), self.phi)

calculate_balance_index(self, emotion_score, logic_score) ==
    IF FEq(logic_score, Zero)
    THEN (IF FGt(emotion_score, Zero) THEN One ELSE Zero)
    ELSE LET actual_ratio == FDiv(emotion_score, logic_score)
             ideal_ratio == self.phi
         IN  FDiv(FSub(actual_ratio, ideal_ratio), ideal_ratio)

\* The three variants of analyze below differ from it in one place each.
AnalyzeWith(self, e, l, emotion_weight, logic_weight, judge_rounded) ==
    LET emotion_component == FMul(emotion_weight, e)
        logic_component == FMul(logic_weight, l)
        harmonic_score == FAdd(emotion_component, logic_component)
        balance_index == calculate_balance_index(self, e, l)
        judged == IF judge_rounded THEN FRound(balance_index, 6) ELSE balance_index
    IN  [harmonic_score |-> FRound(harmonic_score, 6),
         emotion_component |-> FRound(emotion_component, 6),
         logic_component |-> FRound(logic_component, 6),
         balance_index |-> FRound(balance_index, 6),
         is_balanced |-> FLe(FAbs(judged), self.balance_threshold)]

\* Mutant: the two weights swapped.
analyze_swapped_weights(self, emotion_score, logic_score) ==
    AnalyzeWith(self, PyMax(Zero, PyMin(One, emotion_score)),
                PyMax(Zero, PyMin(One, logic_score)),
                self.logic_weight, self.emotion_weight, FALSE)

\* Mutant: the inputs are not clamped.
analyze_unclamped(self, emotion_score, logic_score) ==
    AnalyzeWith(self, emotion_score, logic_score,
                self.emotion_weight, self.logic_weight, FALSE)

\* Mutant: is_balanced judged on the rounded balance index.
analyze_judging_rounded(self, emotion_score, logic_score) ==
    AnalyzeWith(self, PyMax(Zero, PyMin(One, emotion_score)),
                PyMax(Zero, PyMin(One, logic_score)),
                self.emotion_weight, self.logic_weight, TRUE)

analyze(self, emotion_score, logic_score) ==
    LET e == PyMax(Zero, PyMin(One, emotion_score))
        l == PyMax(Zero, PyMin(One, logic_score))
        emotion_component == FMul(self.emotion_weight, e)
        logic_component == FMul(self.logic_weight, l)
        harmonic_score == FAdd(emotion_component, logic_component)
        balance_index == calculate_balance_index(self, e, l)
        is_balanced == FLe(FAbs(balance_index), self.balance_threshold)
    IN  [harmonic_score |-> FRound(harmonic_score, 6),
         emotion_component |-> FRound(emotion_component, 6),
         logic_component |-> FRound(logic_component, 6),
         balance_index |-> FRound(balance_index, 6),
         is_balanced |-> is_balanced]

\* Mutant: the two directions swapped.
suggest_adjustment_swapped(self, emotion_score, logic_score) ==
    LET balance == calculate_balance_index(self, emotion_score, logic_score)
    IN  IF FLe(FAbs(balance), self.balance_threshold)
        THEN [direction |-> "balanced", magnitude |-> Zero]
        ELSE IF FGt(balance, Zero)
        THEN [direction |-> "increase_emotion",
              magnitude |-> FRound(PyMin(FAbs(balance), One), 4)]
        ELSE [direction |-> "increase_logic",
              magnitude |-> FRound(PyMin(FAbs(balance), One), 4)]

\* Mutant: the magnitude is not capped at 1.0.
suggest_adjustment_uncapped(self, emotion_score, logic_score) ==
    LET balance == calculate_balance_index(self, emotion_score, logic_score)
    IN  IF FLe(FAbs(balance), self.balance_threshold)
        THEN [direction |-> "balanced", magnitude |-> Zero]
        ELSE IF FGt(balance, Zero)
        THEN [direction |-> "increase_logic",
              magnitude |-> FRound(FAbs(balance), 4)]
        ELSE [direction |-> "increase_emotion",
              magnitude |-> FRound(FAbs(balance), 4)]

suggest_adjustment(self, emotion_score, logic_score) ==
    LET balance == calculate_balance_index(self, emotion_score, logic_score)
    IN  IF FLe(FAbs(balance), self.balance_threshold)
        THEN [direction |-> "balanced", magnitude |-> Zero]
        ELSE IF FGt(balance, Zero)
        THEN [direction |-> "increase_logic",
              magnitude |-> FRound(PyMin(FAbs(balance), One), 4)]
        ELSE [direction |-> "increase_emotion",
              magnitude |-> FRound(PyMin(FAbs(balance), One), 4)]

(***************************************************************************)
(* Thai text processing (backend/services/thai_nlp.py).  A text is the     *)
(* sequence of its Unicode code points.  The engine is modelled as it runs *)
(* without the optional PyThaiNLP package (PYTHAINLP_AVAILABLE = False),   *)
(* the one tokenizer whose code is part of the repository.                 *)
(***************************************************************************)
\* THAI_EMOTION_KEYWORDS, in the dict's insertion order
THAI_EMOTION_KEYWORDS ==
    <<
      [emotion |-> "joy", keywords |-> <<
          <<3604, 3637, 3651, 3592>>,  \* ดีใจ
          <<3626, 3609, 3640, 3585>>,  \* สนุก
          <<3617, 3637, 3588, 3623, 3634, 3617, 3626, 3640, 3586>>,  \* มีความสุข
          <<3618, 3636, 3609, 3604, 3637>>,  \* ยินดี
          <<3648, 3630>>,  \* เฮ
          <<3626, 3640, 3586, 3651, 3592>>,  \* สุขใจ
          <<3605, 3639, 3656, 3609, 3648, 3605, 3657, 3609>>,  \* ตื่นเต้น
          <<3611, 3621, 3639, 3657, 3617>>,  \* ปลื้ม
          <<3627, 3633, 3623, 3648, 3619, 3634, 3632>>,  \* หัวเราะ
          <<53, 53, 53>>,  \* 555
          <<3586, 3629, 3610, 3588, 3640, 3603>>  \* ขอบคุณ
      >>],
      [emotion |-> "sadness", keywords |-> <<
          <<3648, 3624, 3619, 3657, 3634>>,  \* เศร้า
          <<3648, 3626, 3637, 3618, 3651, 3592>>,  \* เสียใจ
          <<3619, 3657, 3629, 3591, 3652, 3627, 3657>>,  \* ร้องไห้
          <<3612, 3636, 3604, 3627, 3623, 3633, 3591>>,  \* ผิดหวัง
          <<3650, 3624, 3585>>,  \* โศก
          <<3627, 3604, 3627, 3641, 3656>>,  \* หดหู่
          <<3648, 3627, 3591, 3634>>,  \* เหงา
          <<3588, 3636, 3604, 3606, 3638, 3591>>,  \* คิดถึง
          <<3607, 3640, 3585, 3586, 3660>>,  \* ทุกข์
          <<3651, 3592, 3626, 3621, 3634, 3618>>  \* ใจสลาย
      >>],
      [emotion |-> "anger", keywords |-> <<
          <<3650, 3585, 3619, 3608>>,  \* โกรธ
          <<3627, 3591, 3640, 3604, 3627, 3591, 3636, 3604>>,  \* หงุดหงิด
          <<3650, 3617, 3650, 3627>>,  \* โมโห
          <<3610, 3657, 3634>>,  \* บ้า
          <<3648, 3585, 3621, 3637, 3618, 3604>>,  \* เกลียด
          <<3619, 3635, 3588, 3634, 3597>>,  \* รำคาญ
          <<3593, 3640, 3609, 3648, 3593, 3637, 3618, 3623>>,  \* ฉุนเฉียว
          <<3629, 3634, 3619, 3617, 3603, 3660, 3648, 3626, 3637, 3618>>  \* อารมณ์เสีย
      >>],
      [emotion |-> "fear", keywords |-> <<
          <<3585, 3621, 3633, 3623>>,  \* กลัว
          <<3627, 3623, 3634, 3604, 3585, 3621, 3633, 3623>>,  \* หวาดกลัว
          <<3605, 3585, 3651, 3592>>,  \* ตกใจ
          <<3619, 3632, 3649, 3623, 3591>>,  \* ระแวง
          <<3623, 3636, 3605, 3585>>,  \* วิตก
          <<3585, 3633, 3591, 3623, 3621>>,  \* กังวล
          <<3648, 3588, 3619, 3637, 3618, 3604>>,  \* เครียด
          <<3627, 3623, 3634, 3604, 3612, 3623, 3634>>  \* หวาดผวา
      >>],
      [emotion |-> "love", keywords |-> <<
          <<3619, 3633, 3585>>,  \* รัก
          <<3588, 3636, 3604, 3606, 3638, 3591>>,  \* คิดถึง
          <<3607, 3637, 3656, 3619, 3633, 3585>>,  \* ที่รัก
          <<3627, 3633, 3623, 3651, 3592>>,  \* หัวใจ
          <<3585, 3629, 3604>>,  \* กอด
          <<3592, 3641, 3610>>,  \* จูบ
          <<3604, 3641, 3649, 3621>>,  \* ดูแล
          <<3627, 3656, 3623, 3591, 3651, 3618>>,  \* ห่วงใย
          <<3649, 3615, 3609>>  \* แฟน
      >>],
      [emotion |-> "neutral", keywords |-> <<
          <<3626, 3623, 3633, 3626, 3604, 3637>>,  \* สวัสดี
          <<3588, 3619, 3633, 3610>>,  \* ครับ
          <<3588, 3656, 3632>>,  \* ค่ะ
          <<3629, 3632, 3652, 3619>>,  \* อะไร
          <<3607, 3635, 3652, 3617>>,  \* ทำไม
          <<3618, 3633, 3591, 3652, 3591>>,  \* ยังไง
          <<3652, 3604, 3657>>,  \* ได้
          <<3652, 3617, 3656>>,  \* ไม่
          <<3651, 3594, 3656>>  \* ใช่
      >>]
    >>

\* str.isspace(), which is also the regex class \s on str patterns
IsSpace(c) ==
    c \in (9..13) \cup (28..32) \cup {133, 160, 5760} \cup (8192..8202)
          \cup {8232, 8233, 8239, 8287, 12288}

\* the characters of a text
Range(text) == {text[i] : i \in 1..Len(text)}

\* str.strip()
Strip(text) ==
    LET kept == {i \in 1..Len(text) : ~IsSpace(text[i])}
    IN  IF kept = {} THEN <<>>
        ELSE SubSeq(text, CHOOSE i \in kept : \A j \in kept : i <= j,
                          CHOOSE i \in kept : \A j \in kept : j <= i)

\* str.lower(), on the letters of the model's texts (ASCII; Thai has no case)
Lower(t) == [i \in 1..Len(t) |-> IF t[i] \in 65..90 THEN t[i] + 32 ELSE t[i]]

\* kw in text, for two strings
Contains(text, kw) ==
    \E i \in 1..(Len(text) - Len(kw) + 1) : SubSeq(text, i, i + Len(kw) - 1) = kw

\* the value of a set of one value: { e(x) : x \in {v} } computes v once
\* for all its uses in e
Only(values) == CHOOSE v \in values : TRUE

\* x in list
In(x, list) == \E i \in 1..Len(list) : list[i] = x

\* the length of the longest run text[i], text[i+1], ... of characters
\* in the set chars, the stretch a greedy + or {4,} consumes
RunLength(text, i, chars) ==
    Cardinality({j \in i..Len(text) : \A k \in i..j : text[k] \in chars})

\* re.sub(r"\s+", " ", text), from position i on
RECURSIVE SubWhitespace(_, _)
SubWhitespace(text, i) ==
    IF i > Len(text) THEN <<>>
    ELSE IF IsSpace(text[i])
    THEN <<32>> \o SubWhitespace(text, i + RunLength(text, i, {c \in Range(text) : IsSpace(c)}))
    ELSE <<text[i]>> \o SubWhitespace(text, i + 1)

\* re.sub(r"(.)\1{4,}", r"\1\1\1", text), from position i on
RECURSIVE SubRepeats(_, _)
SubRepeats(text, i) ==
    IF i > Len(text) THEN <<>>
    ELSE LET n == RunLength(text, i, {text[i]})
         IN  IF n >= 5 /\ text[i] # 10
             THEN <<text[i], text[i], text[i]>> \o SubRepeats(text, i + n)
             ELSE <<text[i]>> \o SubRepeats(text, i + 1)

\* ThaiNLPEngine.normalize
normalize(text) ==
    IF text = <<>> THEN <<>>
    ELSE SubRepeats(Strip(SubWhitespace(text, 1)), 1)

\* the separator class [\s,;!?。、] of the fallback tokenizer
IsSeparator(c) == IsSpace(c) \/ c \in {44, 59, 33, 63, 12290, 12289}

\* [tok for tok in re.split(r"[\s,;!?。、]+", text) if tok], from position i on
RECURSIVE SplitTokens(_, _)
SplitTokens(text, i) ==
    IF i > Len(text) THEN <<>>
    ELSE IF IsSeparator(text[i]) THEN SplitTokens(text, i + 1)
    ELSE LET n == RunLength(text, i, {c \in Range(text) : ~IsSeparator(c)})
         IN  <<SubSeq(text, i, i + n - 1)>> \o SplitTokens(text, i + n)

\* ThaiNLPEngine.tokenize
tokenize(text) ==
    IF text = <<>> \/ Strip(text) = <<>> THEN <<>>
    ELSE SplitTokens(text, 1)

\* [kw for kw in keywords if kw in normalized or kw in tokens_lower]
Matched(keywords, normalized, tokens_lower) ==
    SelectSeq(keywords,
              LAMBDA kw : Contains(normalized, kw) \/ In(kw, tokens_lower))

\* Mutant: the confidence is not capped at 1.0.
Confidence_uncapped(matched, tokens) ==
    LET token_count == IF Len(tokens) > 1 THEN Len(tokens) ELSE 1
    IN  FMul(FDiv(FromInt(Len(matched)), FromInt(token_count)), Two)

\* min(len(matched) / max(len(tokens), 1) * 2.0, 1.0)
Confidence(matched, tokens) ==
    LET token_count == IF Len(tokens) > 1 THEN Len(tokens) ELSE 1
    IN  PyMin(FMul(FDiv(FromInt(Len(matched)), FromInt(token_count)), Two), One)

\* the dict scores of detect_emotion: an entry for every category with a hit,
\* in the order of THAI_EMOTION_KEYWORDS
CategoryScores(normalized, tokens, tokens_lower) ==
    LET entry(i) ==
            LET matched == Matched(THAI_EMOTION_KEYWORDS[i].keywords,
                                   normalized, tokens_lower)
            IN  [emotion |-> THAI_EMOTION_KEYWORDS[i].emotion,
                 confidence |-> IF matched = <<>> THEN Zero
                                ELSE Confidence(matched, tokens),
                 matched |-> matched]
    IN  SelectSeq([i \in 1..Len(THAI_EMOTION_KEYWORDS) |-> entry(i)],
                  LAMBDA s : s.matched # <<>>)

\* Mutant: among entries of equal confidence the last one wins.
MaxByConfidence_last_wins(scores) ==
    CHOOSE i \in 1..Len(scores) :
        /\ \A j \in 1..Len(scores) : FLe(scores[j].confidence, scores[i].confidence)
        /\ \A j \in (i + 1)..Len(scores) :
               FLt(scores[j].confidence, scores[i].confidence)

\* Mutant: the first entry with the most matched keywords wins.
MaxByConfidence_by_hits(scores) ==
    CHOOSE i \in 1..Len(scores) :
        /\ \A j \in 1..Len(scores) : Len(scores[j].matched) <= Len(scores[i].matched)
        /\ \A j \in 1..(i - 1) : Len(scores[j].matched) < Len(scores[i].matched)

\* max(scores, key=lambda e: scores[e][0]): the index of the first entry that
\* no other entry exceeds (max keeps its candidate unless a later key is greater)
MaxByConfidence(scores) ==
    CHOOSE i \in 1..Len(scores) :
        /\ \A j \in 1..Len(scores) : ~FGt(scores[j].confidence, scores[i].confidence)
        /\ \A j \in 1..(i - 1) : FLt(scores[j].confidence, scores[i].confidence)

\* ThaiNLPEngine.detect_emotion
detect_emotion(text) ==
    IF text = <<>>
    THEN [emotion |-> "neutral", confidence |-> Zero, keywords_found |-> <<>>]
    ELSE LET normalized == normalize(text)
             tokens == tokenize(normalized)
             tokens_lower == [i \in 1..Len(tokens) |-> Lower(tokens[i])]
             scores == CategoryScores(normalized, tokens, tokens_lower)
         IN  IF scores = <<>>
             THEN [emotion |-> "neutral", confidence |-> Dec(0, 3, 1),
                   keywords_found |-> <<>>]
             ELSE LET best == scores[MaxByConfidence(scores)]
                  IN  [emotion |-> best.emotion,
                       confidence |-> FRound(best.confidence, 4),
                       keywords_found |-> best.matched]

\* FORMAL_PARTICLES
FORMAL_PARTICLES ==
    << <<3588, 3619, 3633, 3610>>,                          \* ครับ
       <<3588, 3656, 3632>>,                                \* ค่ะ
       <<3588, 3632>>,                                      \* คะ
       <<3586, 3629, 3619, 3633, 3610>>,                    \* ขอรับ
       <<3648, 3592, 3657, 3634, 3588, 3656, 3632>> >>      \* เจ้าค่ะ

\* CASUAL_PARTICLES
CASUAL_PARTICLES ==
    << <<3592, 3657, 3634>>,                                \* จ้า
       <<3592, 3657, 3632>>,                                \* จ้ะ
       <<3609, 3632>>,                                      \* นะ
       <<3629, 3656, 3632>>,                                \* อ่ะ
       <<3623, 3656, 3632>>,                                \* ว่ะ
       <<3648, 3623, 3657, 3618>>,                          \* เว้ย
       <<3650, 3623, 3657, 3618>>,                          \* โว้ย
       <<53, 53, 53>> >>                                    \* 555

\* [p for p in particles if p in text]
ParticlesFound(particles, text) ==
    SelectSeq(particles, LAMBDA p : Contains(text, p))

\* the number of places in text where p begins
Occurrences(text, p) ==
    Cardinality({i \in 1..(Len(text) - Len(p) + 1) :
                    SubSeq(text, i, i + Len(p) - 1) = p})

\* the level detect_formality gives a formality score
FormalityLevel(formality_score) ==
    IF FGe(formality_score, Dec(0, 6, 1)) THEN "formal"
    ELSE IF FLe(formality_score, Dec(0, 4, 1)) THEN "casual"
    ELSE "neutral"

\* Mutant: no neutral band between the two levels.
detect_formality_two_levels(text) ==
    IF text = <<>>
    THEN [level |-> "neutral", score |-> Dec(0, 5, 1), markers_found |-> <<>>]
    ELSE LET formal_found == ParticlesFound(FORMAL_PARTICLES, text)
             casual_found == ParticlesFound(CASUAL_PARTICLES, text)
             total == Len(formal_found) + Len(casual_found)
             formality_score == FDiv(FromInt(Len(formal_found)), FromInt(total))
         IN  IF total = 0
             THEN [level |-> "neutral", score |-> Dec(0, 5, 1),
                   markers_found |-> <<>>]
             ELSE [level |-> IF FGt(formality_score, Dec(0, 5, 1))
                             THEN "formal" ELSE "casual",
                   score |-> FRound(formality_score, 4),
                   markers_found |-> formal_found \o casual_found]

\* Mutant: every occurrence of a particle is counted.
detect_formality_counting_occurrences(text) ==
    IF text = <<>>
    THEN [level |-> "neutral", score |-> Dec(0, 5, 1), markers_found |-> <<>>]
    ELSE LET formal_found == ParticlesFound(FORMAL_PARTICLES, text)
             casual_found == ParticlesFound(CASUAL_PARTICLES, text)
             Sum(found, n) ==
                 LET RECURSIVE Upto(_)
                     Upto(k) == IF k = 0 THEN 0
                                ELSE Upto(k - 1) + Occurrences(text, found[k])
                 IN  Upto(n)
             formal_count == Sum(formal_found, Len(formal_found))
             casual_count == Sum(casual_found, Len(casual_found))
             total == formal_count + casual_count
             formality_score == FDiv(FromInt(formal_count), FromInt(total))
         IN  IF total = 0
             THEN [level |-> "neutral", score |-> Dec(0, 5, 1),
                   markers_found |-> <<>>]
             ELSE [level |-> FormalityLevel(formality_score),
                   score |-> FRound(formality_score, 4),
                   markers_found |-> formal_found \o casual_found]

\* ThaiNLPEngine.detect_formality
detect_formality(text) ==
    IF text = <<>>
    THEN [level |-> "neutral", score |-> Dec(0, 5, 1), markers_found |-> <<>>]
    ELSE LET Counted(formal_found, casual_found) ==
                 LET formal_count == Len(formal_found)
                     casual_count == Len(casual_found)
                     total == formal_count + casual_count
                 IN  IF total = 0
                     THEN [level |-> "neutral", score |-> Dec(0, 5, 1),
                           markers_found |-> <<>>]
                     ELSE Only({ [level |-> FormalityLevel(formality_score),
                                  score |-> FRound(formality_score, 4),
                                  markers_found |-> formal_found \o casual_found]
                                 : formality_score \in
                                     {FDiv(FromInt(formal_count), FromInt(total))} })
         IN  Only({ Counted(formal_found, casual_found)
                    : formal_found \in {ParticlesFound(FORMAL_PARTICLES, text)},
                      casual_found \in {ParticlesFound(CASUAL_PARTICLES, text)} })

(***************************************************************************)
(* The emotion detector (backend/services/emotion_detector.py).            *)
(***************************************************************************)
\* EMOTION_PROFILES
EMOTION_PROFILES ==
    [joy     |-> [emotion_intensity |-> Dec(0, 85, 2), logic_clarity |-> Dec(0, 65, 2)],
     sadness |-> [emotion_intensity |-> Dec(0, 80, 2), logic_clarity |-> Dec(0, 40, 2)],
     anger   |-> [emotion_intensity |-> Dec(0, 90, 2), logic_clarity |-> Dec(0, 30, 2)],
     fear    |-> [emotion_intensity |-> Dec(0, 75, 2), logic_clarity |-> Dec(0, 45, 2)],
     love    |-> [emotion_intensity |-> Dec(0, 95, 2), logic_clarity |-> Dec(0, 55, 2)],
     neutral |-> [emotion_intensity |-> Dec(0, 40, 2), logic_clarity |-> Dec(0, 70, 2)]]

\* ThaiNLPEngine(): the engine of the repository
ThaiNLPEngine == [kind |-> "ThaiNLPEngine"]

\* an engine handed to the detector whose detect_emotion returns a fixed
\* label and confidence, whatever the text
CustomEngine(emotion, confidence) ==
    [kind |-> "custom", emotion |-> emotion, confidence |-> confidence]

\* EmotionDetector.__init__
EmotionDetector(nlp_engine, ratio_analyzer) ==
    [nlp |-> nlp_engine, ratio |-> ratio_analyzer]

\* self.nlp.detect_emotion(text)
NlpDetectEmotion(nlp_engine, text) ==
    IF nlp_engine.kind = "ThaiNLPEngine" THEN detect_emotion(text)
    ELSE [emotion |-> nlp_engine.emotion, confidence |-> nlp_engine.confidence,
          keywords_found |-> <<>>]

\* Mutant: an unknown label falls back to the joy profile.
ProfileGet_joy_default(emotion) ==
    IF emotion \in DOMAIN EMOTION_PROFILES THEN EMOTION_PROFILES[emotion]
    ELSE EMOTION_PROFILES["joy"]

\* EMOTION_PROFILES.get(nlp_result.emotion, EMOTION_PROFILES["neutral"])
ProfileGet(emotion) ==
    IF emotion \in DOMAIN EMOTION_PROFILES THEN EMOTION_PROFILES[emotion]
    ELSE EMOTION_PROFILES["neutral"]

\* None, the adjustment_suggestion a DetectionResult has by default: a
\* value that is not a suggestion and has none of its keys
None == [none |-> TRUE]

\* the DetectionResult returned for empty text
ZeroedResult ==
    [emotion |-> "neutral", confidence |-> Zero, harmonic_score |-> Zero,
     balance_index |-> Zero, is_balanced |-> TRUE, keywords_found |-> <<>>,
     formality |-> "neutral", adjustment_suggestion |-> None]

\* the DetectionResult detect builds from its local variables, and the calls
\* it has made to the components, in order
DetectionResult(text, nlp_result, emotion_score, logic_score, ratio_result, suggestion, formality) ==
    [value |->
        [emotion |-> nlp_result.emotion,
         confidence |-> nlp_result.confidence,
         harmonic_score |-> ratio_result.harmonic_score,
         balance_index |-> ratio_result.balance_index,
         is_balanced |-> ratio_result.is_balanced,
         keywords_found |-> nlp_result.keywords_found,
         formality |-> formality.level,
         adjustment_suggestion |-> suggestion],
     calls |->
        << [fn |-> "detect_emotion", args |-> <<text>>],
           [fn |-> "analyze", args |-> <<emotion_score, logic_score>>],
           [fn |-> "suggest_adjustment", args |-> <<emotion_score, logic_score>>],
           [fn |-> "detect_formality", args |-> <<text>>] >>]

\* the steps of detect after the guard: each local variable is computed
\* once, from those before it
DetectSteps(self, text, floor) ==
    Only({ Only({ Only({ Only({ DetectionResult(text, nlp_result, emotion_score,
                                                logic_score, ratio_result,
                                                suggestion, formality)
                                : ratio_result \in
                                    {analyze(self.ratio, emotion_score,
                                             logic_score)},
                                  suggestion \in
                                    {suggest_adjustment(self.ratio, emotion_score,
                                                        logic_score)},
                                  formality \in {detect_formality(text)} })
                         : emotion_score \in
                             {PyMax(FMul(profile.emotion_intensity,
                                         nlp_result.confidence), floor)},
                           logic_score \in
                             {PyMax(FMul(profile.logic_clarity,
                                         nlp_result.confidence), floor)} })
                  : profile \in {ProfileGet(nlp_result.emotion)} })
           : nlp_result \in {NlpDetectEmotion(self.nlp, text)} })

\* Mutant: only the empty text is turned away.
DetectRun_empty_only(self, text) ==
    IF text = <<>> THEN [value |-> ZeroedResult, calls |-> <<>>]
    ELSE DetectSteps(self, text, Dec(0, 1, 1))

\* Mutant: the scores handed to the balancer have no floor.
DetectRun_no_floor(self, text) ==
    IF text = <<>> \/ Strip(text) = <<>>
    THEN [value |-> ZeroedResult, calls |-> <<>>]
    ELSE DetectSteps(self, text, Zero)

\* Mutant: the zeroed result carries a balanced suggestion.
DetectRun_zeroed_suggestion(self, text) ==
    IF text = <<>> \/ Strip(text) = <<>>
    THEN [value |-> [ZeroedResult EXCEPT !.adjustment_suggestion =
                        [direction |-> "balanced", magnitude |-> Zero]],
          calls |-> <<>>]
    ELSE DetectSteps(self, text, Dec(0, 1, 1))

\* EmotionDetector.detect, with the calls it makes to self.nlp and self.ratio
DetectRun(self, text) ==
    IF text = <<>> \/ Strip(text) = <<>>
    THEN [value |-> ZeroedResult, calls |-> <<>>]
    ELSE DetectSteps(self, text, Dec(0, 1, 1))

\* EmotionDetector.detect
detect(self, text) == DetectRun(self, text).value

\* the calls logged by the runs of a batch, one item after the other
RECURSIVE BatchCalls(_, _)
BatchCalls(runs, n) ==
    IF n = 0 THEN <<>>
    ELSE BatchCalls(runs, n - 1) \o runs[n].calls

\* Mutant: empty items are left out of the batch.
BatchRuns_skipping_empty(self, texts) ==
    LET kept == SelectSeq(texts, LAMBDA t : t # <<>>)
    IN  [i \in 1..Len(kept) |-> DetectRun(self, kept[i])]

\* EmotionDetector.detect_batch: [self.detect(t) for t in texts], with the
\* calls each detect makes
BatchRuns(self, texts) ==
    [i \in 1..Len(texts) |-> DetectRun(self, texts[i])]

\* EmotionDetector.detect_batch
detect_batch(runs) == [i \in 1..Len(runs) |-> runs[i].value]

(***************************************************************************)
(* The inputs of the model.                                                *)
(***************************************************************************)
\* scores handed to the analyzer: inside [0, 1], outside it, and nan
Scores ==
    { NaN, FNeg(Dec(0, 5, 1)), Zero, Dec(0, 1, 1), FMul(PHI, Dec(0, 1, 1)),
      Dec(0, 3, 1), FMul(PHI, Dec(0, 3, 1)), Dec(0, 5, 1),
      Dec(0, 9303697, 7), One, FAdd(One, Dec(0, 5, 1)) }

\* analyzers with a positive phi and a threshold >= 0
ValidAnalyzers ==
    { GoldenRatioAnalyzer(phi, t) : phi \in {PHI, Two}, t \in {Dec(0, 15, 2), Zero} }

\* analyzers with any non-zero phi and any threshold
AnyAnalyzers ==
    { GoldenRatioAnalyzer(phi, t) :
        phi \in {PHI, FNeg(Dec(0, 15, 1))},
        t \in {Dec(0, 15, 2), FNeg(Dec(0, 1, 1))} }

\* the pieces texts are made of: whitespace, keywords of several categories
\* (one of them in two categories, one containing another), a keyword among
\* other words, a run of repeated characters, formal and casual particles,
\* words that are no keyword
Pieces ==
    { <<32>>,                                      \* " "
      <<10>>,                                      \* "\n"
      <<3604, 3637, 3651, 3592>>,                  \* ดีใจ
      <<3588, 3636, 3604, 3606, 3638, 3591>>,      \* คิดถึง
      <<3607, 3637, 3656, 3619, 3633, 3585>>,      \* ที่รัก
      <<3648, 3624, 3619, 3657, 3634, 32, 111, 107, 32, 111, 107, 32>>,
                                                   \* "เศร้า ok ok "
      <<3650, 3585, 3619, 3608, 32, 97, 32, 98, 32, 99, 32, 100, 32, 101, 32, 102, 32>>,
                                                   \* "โกรธ a b c d e f "
      <<53, 53, 53, 53, 53>>,                      \* 55555
      <<3588, 3619, 3633, 3610>>,                  \* ครับ
      <<3592, 3657, 3634, 3609, 3632>>,            \* จ้านะ
      <<3588, 3619, 3633, 3610, 3609, 3632>>,      \* ครับนะ
      <<72, 105, 44, 32>> }                        \* "Hi, "

\* a text is at most MaxPieces pieces, one after the other
MaxPieces == 2

RECURSIVE TextsOf(_)
TextsOf(n) ==
    IF n = 0 THEN {<<>>}
    ELSE LET shorter == TextsOf(n - 1)
         IN  shorter \cup {t \o p : t \in shorter, p \in Pieces}

Texts == TextsOf(MaxPieces)

\* engines other than the repository's that a detector is built with: their
\* label is not a key of EMOTION_PROFILES
CustomEngines ==
    { CustomEngine("surprise", c) : c \in {Zero, Dec(0, 8, 1)} }

\* the items batches are made of, and the longest batch
BatchItems ==
    { <<>>,                                                          \* ""
      <<32>>,                                                        \* " "
      <<3604, 3637, 3651, 3592>>,                                    \* ดีใจ
      <<3588, 3619, 3633, 3610, 3592, 3657, 3634, 3609, 3632>> }     \* ครับจ้านะ

MaxBatch == 3

RECURSIVE BatchesOf(_)
BatchesOf(n) ==
    IF n = 0 THEN {<<>>}
    ELSE LET shorter == BatchesOf(n - 1)
         IN  shorter \cup {Append(b, t) : b \in shorter, t \in BatchItems}

Batches == BatchesOf(MaxBatch)

(***************************************************************************)
(* The state: the detector a caller holds, and the call in progress.       *)
(***************************************************************************)
(***************************************************************************)
(* services/golden_ratio_emotion.py                                        *)
(***************************************************************************)
\* AnalysisWeights()
AnalysisWeights == [phi |-> PHI, emotion |-> Dec(0, 618, 3), logic |-> Dec(0, 382, 3)]

\* GoldenRatioEmotionAnalyzer.POSITIVE_WORDS: happy great love and four Thai words
POSITIVE_WORDS ==
    << <<3604, 3637, 3651, 3592>>,
       <<3617, 3637, 3588, 3623, 3634, 3617, 3626, 3640, 3586>>,
       <<3618, 3636, 3609, 3604, 3637>>,
       <<3611, 3621, 3639, 3657, 3617>>,
       <<104, 97, 112, 112, 121>>,
       <<103, 114, 101, 97, 116>>,
       <<108, 111, 118, 101>> >>

\* GoldenRatioEmotionAnalyzer.NEGATIVE_WORDS: sad angry stress and five Thai words
NEGATIVE_WORDS ==
    << <<3648, 3624, 3619, 3657, 3634>>,
       <<3650, 3585, 3619, 3608>>,
       <<3648, 3588, 3619, 3637, 3618, 3604>>,
       <<3585, 3633, 3591, 3623, 3621>>,
       <<3648, 3626, 3637, 3618, 3651, 3592>>,
       <<115, 97, 100>>,
       <<97, 110, 103, 114, 121>>,
       <<115, 116, 114, 101, 115, 115>> >>

\* GoldenRatioEmotionAnalyzer.LOGIC_HINTS: because therefore so and four Thai words
LOGIC_HINTS ==
    << <<3648, 3614, 3619, 3634, 3632>>,
       <<3604, 3633, 3591, 3609, 3633, 3657, 3609>>,
       <<3626, 3619, 3640, 3611>>,
       <<3648, 3627, 3605, 3640, 3612, 3621>>,
       <<98, 101, 99, 97, 117, 115, 101>>,
       <<116, 104, 101, 114, 101, 102, 111, 114, 101>>,
       <<115, 111>> >>

\* GoldenRatioEmotionAnalyzer(): the default weights
GoldenRatioEmotionAnalyzer == [weights |-> AnalysisWeights]

\* a str value, where None can be given in its place
Str(t) == [str |-> t]

\* a dict, as the list of its items
Dict(items) == [dict |-> items]

\* bool(context.get("has_history")) for a context whose values are booleans
HasHistory(context) ==
    \E i \in 1..Len(context.dict) :
        /\ context.dict[i].key = "has_history"
        /\ context.dict[i].value

\* GoldenRatioEmotionAnalyzer._keyword_hits
keyword_hits(text, words) ==
    Cardinality({i \in 1..Len(words) : Contains(text, words[i])})

\* len(text.split()): the number of runs of characters that are not spaces
WordCount(text) ==
    Cardinality({i \in 1..Len(text) :
                    ~IsSpace(text[i]) /\ (i = 1 \/ IsSpace(text[i - 1]))})

\* Mutant: the boosted intensity is not capped.
emotion_score_of_unbounded(text) ==
    IF text = <<>> THEN Zero
    ELSE LET pos_hits == keyword_hits(text, POSITIVE_WORDS)
             neg_hits == keyword_hits(text, NEGATIVE_WORDS)
             intensity == PyMin(One, FDiv(FromInt(pos_hits + neg_hits), FromInt(3)))
             punctuation_boost == IF 33 \in Range(text) THEN Dec(0, 1, 1) ELSE Zero
         IN  FRound(FAdd(intensity, punctuation_boost), 4)

\* GoldenRatioEmotionAnalyzer._detect_emotion
emotion_score_of(text) ==
    IF text = <<>> THEN Zero
    ELSE LET pos_hits == keyword_hits(text, POSITIVE_WORDS)
             neg_hits == keyword_hits(text, NEGATIVE_WORDS)
             intensity == PyMin(One, FDiv(FromInt(pos_hits + neg_hits), FromInt(3)))
             punctuation_boost == IF 33 \in Range(text) THEN Dec(0, 1, 1) ELSE Zero
         IN  FRound(PyMin(One, FAdd(intensity, punctuation_boost)), 4)

\* GoldenRatioEmotionAnalyzer._analyze_logic
analyze_logic(text, context) ==
    IF text = <<>> THEN Zero
    ELSE LET word_count == WordCount(text)
             hints == keyword_hits(text, LOGIC_HINTS)
             by_length == IF word_count >= 12
                          THEN FAdd(Dec(0, 25, 2), Dec(0, 35, 2))
                          ELSE IF word_count >= 6
                          THEN FAdd(Dec(0, 25, 2), Dec(0, 2, 1))
                          ELSE Dec(0, 25, 2)
             by_hints == IF hints # 0
                         THEN FAdd(by_length,
                                   PyMin(Dec(0, 35, 2),
                                         FMul(FromInt(hints), Dec(0, 12, 2))))
                         ELSE by_length
             base == IF HasHistory(context) THEN FAdd(by_hints, Dec(0, 5, 2))
                     ELSE by_hints
         IN  FRound(PyMin(One, base), 4)

\* GoldenRatioEmotionAnalyzer._calculate_confidence
calculate_confidence(emotion_score, logic_score) ==
    IF FEq(emotion_score, Zero) /\ FEq(logic_score, Zero) THEN Zero
    ELSE LET balance == FSub(One, FAbs(FSub(emotion_score, logic_score)))
             confidence == FMul(FDiv(FAdd(emotion_score, logic_score), Two),
                                PyMax(Zero, balance))
         IN  FRound(PyMin(PyMax(confidence, Zero), One), 4)

\* GoldenRatioEmotionAnalyzer._strategy
strategy(emotion_score, logic_score) ==
    IF FGt(FSub(emotion_score, logic_score), Dec(0, 2, 1)) THEN "emotion_driven"
    ELSE IF FGt(FSub(logic_score, emotion_score), Dec(0, 2, 1)) THEN "logic_driven"
    ELSE "balanced"

\* the dict analyze returns for the two scores
Analysis(self, emotion_score, logic_score) ==
    [emotion |-> emotion_score,
     logic |-> logic_score,
     combined |-> FRound(FAdd(FMul(emotion_score, self.weights.emotion),
                              FMul(logic_score, self.weights.logic)), 4),
     confidence |-> calculate_confidence(emotion_score, logic_score),
     strategy |-> strategy(emotion_score, logic_score)]

\* GoldenRatioEmotionAnalyzer.analyze: text is a str or None, context a
\* dict or None
analyze_text(self, text, context) ==
    LET normalized == Lower(Strip(IF text = None THEN <<>> ELSE text.str))
        given == IF context = None THEN Dict(<<>>) ELSE context
    IN  Only({ Analysis(self, scores[1], scores[2]) :
                 scores \in {<<emotion_score_of(normalized),
                               analyze_logic(normalized, given)>>} })

(***************************************************************************)
(* core/pdpa.py.  A payload is a dict (the list of its items), a list, a   *)
(* str or None.                                                            *)
(***************************************************************************)
\* PDPACompliance.REDACT_FIELDS
REDACT_FIELDS ==
    {"full_name", "first_name", "last_name", "phone", "phone_number", "email",
     "line_id", "address"}

\* a list
List(items) == [list |-> items]

\* "[REDACTED]"
REDACTED == Str(<<91, 82, 69, 68, 65, 67, 84, 69, 68, 93>>)

\* isinstance(node, dict), isinstance(node, list)
IsDict(node) == "dict" \in DOMAIN node
IsList(node) == "list" \in DOMAIN node

\* copy.deepcopy: a payload equal to the one given, which shares no
\* container with it
deepcopy(payload) == payload

\* Mutant: the items of lists are returned as they are.
RECURSIVE scrub_skipping_lists(_)
scrub_skipping_lists(node) ==
    IF IsDict(node)
    THEN Dict([i \in 1..Len(node.dict) |->
                 [key |-> node.dict[i].key,
                  value |-> IF node.dict[i].key \in REDACT_FIELDS THEN REDACTED
                            ELSE scrub_skipping_lists(node.dict[i].value)]])
    ELSE node

\* scrub, the local function of anonymize_conversation
RECURSIVE scrub(_)
scrub(node) ==
    IF IsDict(node)
    THEN Dict([i \in 1..Len(node.dict) |->
                 [key |-> node.dict[i].key,
                  value |-> IF node.dict[i].key \in REDACT_FIELDS THEN REDACTED
                            ELSE scrub(node.dict[i].value)]])
    ELSE IF IsList(node)
    THEN List([i \in 1..Len(node.list) |-> scrub(node.list[i])])
    ELSE node

\* PDPACompliance.anonymize_conversation: what it returns, and the argument
\* as the caller holds it after the call (no statement assigns into it)
anonymize_conversation(conversation) ==
    LET payload == deepcopy(conversation)
    IN  [conversation |-> conversation, value |-> scrub(payload)]

(***************************************************************************)
(* nre_core.py                                                             *)
(***************************************************************************)
\* the list fib of fibonacci_backoff
FIB == <<1, 1, 2, 3, 5, 8, 13>>

\* the exception of an index out of range
IndexError == [raise |-> "IndexError"]

\* fibonacci_backoff: fib[min(attempt, len(fib) - 1)], where a negative
\* index counts from the end of the list and one below -len(fib) raises
fibonacci_backoff(attempt) ==
    LET index == IF attempt < Len(FIB) - 1 THEN attempt ELSE Len(FIB) - 1
    IN  IF index >= 0 THEN [value |-> FIB[index + 1]]
        ELSE IF index >= -Len(FIB) THEN [value |-> FIB[Len(FIB) + index + 1]]
        ELSE IndexError

\* the retries of process_request: it retries while attempts < 5
MAX_RETRIES == 5

\* no call of process_request in progress
NoProcessRequest ==
    [pc |-> "none", message |-> <<>>, user_id |-> "none", given |-> 0,
     attempts |-> 0, invocations |-> 0, slept |-> <<>>, outcome |-> None]

\* Mutant: one more retry is made.
on_exception_retrying_once_more(call) ==
    IF call.attempts < MAX_RETRIES + 1
    THEN LET wait_time == fibonacci_backoff(call.attempts)
         IN  IF wait_time = IndexError
             THEN [call EXCEPT !.pc = "raised", !.outcome = IndexError]
             ELSE [call EXCEPT !.pc = "sleeping",
                               !.slept = Append(@, wait_time.value)]
    ELSE [call EXCEPT !.pc = "raised", !.outcome = [raise |-> "Exception"]]

\* the except clause of process_request, entered with the exception e of
\* brain.process: the call sleeps before it retries, or raises
on_exception(call) ==
    IF call.attempts < MAX_RETRIES
    THEN LET wait_time == fibonacci_backoff(call.attempts)
         IN  IF wait_time = IndexError
             THEN [call EXCEPT !.pc = "raised", !.outcome = IndexError]
             ELSE [call EXCEPT !.pc = "sleeping",
                               !.slept = Append(@, wait_time.value)]
    ELSE [call EXCEPT !.pc = "raised", !.outcome = [raise |-> "Exception"]]

(***************************************************************************)
(* The API gateway: the components behind /api/chat.                       *)
(***************************************************************************)
\* PersonalityConfig(): of its fields the engine reads default_mood (and the
\* names, which only appear in texts)
PersonalityConfig == [default_mood |-> "cheerful"]

\* NaMoPersonality(config): the configured mood, no interaction yet
NaMoPersonalityOf(config) ==
    [config |-> config, mood |-> config.default_mood, interaction_count |-> 0,
     mood_history |-> <<>>]

\* NaMoPersonality()
NaMoPersonality == NaMoPersonalityOf(PersonalityConfig)

\* RESPONSE_TEMPLATES: for each emotion and mood, how many templates there are
RESPONSE_TEMPLATES ==
    [joy     |-> [cheerful |-> 3, calm |-> 2],
     sadness |-> [cheerful |-> 2, calm |-> 2],
     anger   |-> [cheerful |-> 2, calm |-> 1],
     fear    |-> [cheerful |-> 2, calm |-> 1],
     love    |-> [cheerful |-> 2, calm |-> 1],
     neutral |-> [cheerful |-> 2, calm |-> 2]]

\* MOOD_EMOJIS, as code points
MOOD_EMOJIS ==
    [cheerful |-> <<10024>>, calm |-> <<127769>>, playful |-> <<127872>>,
     serious |-> <<128302>>, loving |-> <<128149>>]

\* PersonalityResponse
PersonalityResponse(message, mood, emoji, formality_matched) ==
    [message |-> message, mood |-> mood, emoji |-> emoji,
     formality_matched |-> formality_matched]

\* Mutant: a neutral or unknown emotion leaves the mood as it is.
update_mood_sticky(self, user_emotion) ==
    LET new_mood == CASE user_emotion = "joy" -> "cheerful"
                      [] user_emotion = "love" -> "loving"
                      [] user_emotion \in {"sadness", "anger", "fear"} -> "calm"
                      [] OTHER -> self.mood
    IN  IF new_mood # self.mood
        THEN [self EXCEPT !.mood_history = Append(@, self.mood),
                          !.mood = new_mood]
        ELSE self

\* NaMoPersonality._update_mood
update_mood(self, user_emotion) ==
    LET new_mood == CASE user_emotion = "joy" -> "cheerful"
                      [] user_emotion = "love" -> "loving"
                      [] user_emotion \in {"sadness", "anger", "fear"} -> "calm"
                      [] OTHER -> self.config.default_mood
    IN  IF new_mood # self.mood
        THEN [self EXCEPT !.mood_history = Append(@, self.mood),
                          !.mood = new_mood]
        ELSE self

\* NaMoPersonality._create_reaction: which of its three snippets
create_reaction(user_message) ==
    IF Len(user_message) < 10 THEN "none"
    ELSE IF Len(user_message) < 50 THEN "understood"
    ELSE "read every character"

\* the templates generate_response chooses among: those of the emotion (of
\* neutral for an unknown one) and of the mood (of cheerful for a mood that
\* has none)
MoodTemplates(mood, emotion) ==
    LET e == IF emotion \in DOMAIN RESPONSE_TEMPLATES THEN emotion ELSE "neutral"
        m == IF mood \in DOMAIN RESPONSE_TEMPLATES[e] THEN mood ELSE "cheerful"
    IN  [emotion |-> e, mood |-> m, count |-> RESPONSE_TEMPLATES[e][m]]

\* the draws of random.choice (every template count divides their number)
Draws == 0..5

\* the response generate_response builds when its mood is updated: the
\* message is the template drawn, with the reaction snippet, in the casual
\* register when asked
ResponseOf(self, user_message, emotion, formality, draw) ==
    LET mood_templates == MoodTemplates(self.mood, emotion)
        template == [emotion |-> mood_templates.emotion,
                     mood |-> mood_templates.mood,
                     index |-> (draw % mood_templates.count) + 1]
        emoji == IF self.mood \in DOMAIN MOOD_EMOJIS THEN MOOD_EMOJIS[self.mood]
                 ELSE MOOD_EMOJIS.cheerful
    IN  PersonalityResponse([template |-> template,
                             reaction |-> create_reaction(user_message),
                             casual |-> formality = "casual"],
                            self.mood, emoji, TRUE)

\* Mutant: an interaction is counted only when it changes the mood.
generate_response_counting_changes(self, user_message, emotion, formality, draw) ==
    LET updated == update_mood(self, emotion)
        after == IF updated.mood # self.mood
                 THEN [updated EXCEPT !.interaction_count = @ + 1]
                 ELSE updated
    IN  [self |-> after,
         value |-> ResponseOf(after, user_message, emotion, formality, draw)]

\* NaMoPersonality.generate_response: the personality after the call and the
\* PersonalityResponse returned (draw is what random.choice draws)
generate_response(self, user_message, emotion, formality, draw) ==
    LET after == update_mood([self EXCEPT !.interaction_count = @ + 1], emotion)
    IN  [self |-> after,
         value |-> ResponseOf(after, user_message, emotion, formality, draw)]

\* NaMoPersonality.get_greeting: the greeting of the mood (the fallback one
\* for a mood without a greeting)
get_greeting(self) ==
    IF self.mood \in {"cheerful", "calm", "loving", "playful", "serious"}
    THEN [greeting |-> self.mood]
    ELSE [greeting |-> "fallback"]

\* the last n elements of a list: list[-n:]
LastN(list, n) ==
    IF Len(list) <= n THEN list ELSE SubSeq(list, Len(list) - n + 1, Len(list))

\* NaMoPersonality.get_state
get_state(self) ==
    [mood |-> self.mood, interaction_count |-> self.interaction_count,
     mood_history |-> LastN(self.mood_history, 5)]

\* FusionBrain(): the flags of FusionUnlockConfig (the master switch
\* _UNLOCK_FUSION_NSFWRP_MODE without its underscore) and the arousal
FusionBrain ==
    [flags |-> [UNLOCK_FUSION_NSFWRP_MODE |-> FALSE,
                BYPASS_FILTERS |-> FALSE,
                ENABLE_MULTICHAR_ROLEPLAY |-> FALSE,
                EMOTIONAL_FUSION_DEPTH |-> "NORMAL",
                USER_CENTRIC_CONTROL |-> TRUE],
     arousal |-> 0]

\* Mutant: the unlock sequence switches the master flag over.
activate_fusion_mode_toggling(flags) ==
    [flags EXCEPT !.UNLOCK_FUSION_NSFWRP_MODE = ~@,
                  !.BYPASS_FILTERS = TRUE,
                  !.ENABLE_MULTICHAR_ROLEPLAY = TRUE,
                  !.EMOTIONAL_FUSION_DEPTH = "MAX"]

\* FusionUnlockConfig.activate_fusion_mode
activate_fusion_mode(flags) ==
    [flags EXCEPT !.UNLOCK_FUSION_NSFWRP_MODE = TRUE,
                  !.BYPASS_FILTERS = TRUE,
                  !.ENABLE_MULTICHAR_ROLEPLAY = TRUE,
                  !.EMOTIONAL_FUSION_DEPTH = "MAX"]

\* "UNLOCK_FUSION"
UNLOCK_FUSION == <<85, 78, 76, 79, 67, 75, 95, 70, 85, 83, 73, 79, 78>>

\* fusion_brain.PHI, EMOTION_WEIGHT, LOGIC_WEIGHT
FUSION_PHI == Dec(0, 1618, 3)
EMOTION_WEIGHT == FDiv(One, FUSION_PHI)
LOGIC_WEIGHT == FSub(One, EMOTION_WEIGHT)

\* FusionBrain.calculate_harmonic_score
calculate_harmonic_score(emotion_score, logic_score) ==
    FAdd(FMul(EMOTION_WEIGHT, emotion_score), FMul(LOGIC_WEIGHT, logic_score))

\* values random.random() can draw, which are in [0, 1)
RandomDraws == {Zero, Dec(0, 25, 2), Dec(0, 5, 1)}

\* FusionBrain.process: the brain after the call and what it returns (the
\* reply is one of three texts; the third carries the arousal); mock_emotion
\* and mock_logic are the two draws of random.random()
process(self, user_input, user_id, mock_emotion, mock_logic) ==
    IF Contains(user_input, UNLOCK_FUSION)
    THEN [self |-> [self EXCEPT !.flags = activate_fusion_mode(@)],
          value |-> [reply |-> [text |-> "System Overridden"],
                     emotion |-> "dominant", harmonic_score |-> One,
                     user_id |-> user_id]]
    ELSE LET h_score == calculate_harmonic_score(mock_emotion, mock_logic)
         IN  IF self.flags.UNLOCK_FUSION_NSFWRP_MODE
             THEN LET arousal == IF self.arousal + 10 < 100
                                 THEN self.arousal + 10 ELSE 100
                  IN  [self |-> [self EXCEPT !.arousal = arousal],
                       value |-> [reply |-> [text |-> "Arousal",
                                             arousal |-> arousal],
                                  emotion |-> "seductive",
                                  harmonic_score |-> h_score,
                                  user_id |-> user_id]]
             ELSE [self |-> self,
                   value |-> [reply |-> [text |-> "greeting"],
                              emotion |-> "neutral", harmonic_score |-> h_score,
                              user_id |-> user_id]]

\* analytics._record_interaction: the store after the call (timestamps are
\* left out)
record_interaction(store, user_id, emotion, harmonic_score) ==
    LET entry == [emotion |-> emotion, harmonic_score |-> harmonic_score]
    IN  IF \E i \in 1..Len(store) : store[i].user_id = user_id
        THEN [i \in 1..Len(store) |->
                 IF store[i].user_id = user_id
                 THEN [store[i] EXCEPT !.interactions = Append(@, entry)]
                 ELSE store[i]]
        ELSE Append(store, [user_id |-> user_id, interactions |-> <<entry>>])

\* auth.SECRET_KEY
SECRET_KEY == "omni-genesis-dev-secret-change-in-production"

\* what a request carries in its Authorization header: nothing, a scheme
\* other than Bearer, a bearer string that is no JWT, or a JWT with its
\* claims, the key that signed it and whether it has expired
NoAuthorization == [scheme |-> "none"]
BasicAuthorization == [scheme |-> "Basic"]
BearerGarbage == [scheme |-> "Bearer", jwt |-> FALSE]
BearerJwt(claims, key, expired) ==
    [scheme |-> "Bearer", jwt |-> TRUE, claims |-> claims, key |-> key,
     expired |-> expired]

\* the exception of jose.jwt.decode
JWTError == [error |-> "JWTError"]

\* jose.jwt.decode(token, SECRET_KEY, algorithms=[ALGORITHM]): the claims of
\* a token signed with the key and not expired
jwt_decode(token, key) ==
    IF token.jwt /\ token.key = key /\ ~token.expired
    THEN token.claims
    ELSE JWTError

\* the response of an HTTPException
HTTPException(status_code) == [status_code |-> status_code]

\* Mutant: the claims are read without checking the signature or the expiry.
verify_token_unverified(credentials) ==
    IF credentials.jwt /\ "sub" \in DOMAIN credentials.claims
    THEN [user_id |-> credentials.claims.sub]
    ELSE HTTPException(401)

\* auth.verify_token: the user id, or the 401 it raises
verify_token(credentials) ==
    LET payload == jwt_decode(credentials, SECRET_KEY)
    IN  IF payload = JWTError THEN HTTPException(401)
        ELSE IF "sub" \notin DOMAIN payload THEN HTTPException(401)
        ELSE [user_id |-> payload.sub]

\* the status HTTPBearer() answers with when the request has no bearer
\* credentials: 403, or 401 with later releases of the framework
HTTPBearerRejections == {401, 403}

\* ChatRequest: message has min_length=1 and max_length=2000
MIN_MESSAGE_LENGTH == 1
MAX_MESSAGE_LENGTH == 2000

\* ChatRequest validation: the message sanitized, or the 422 of the handler
\* of RequestValidationError
ChatRequest(message) ==
    IF Len(message) < MIN_MESSAGE_LENGTH \/ Len(message) > MAX_MESSAGE_LENGTH
    THEN HTTPException(422)
    ELSE [message |-> Strip(message)]

\* no request in progress
NoRequest ==
    [pc |-> "none", authorization |-> None, message |-> <<>>,
     principal |-> None, chat_request |-> None, response |-> None,
     invoked |-> <<>>]

VARIABLES
    nlp,     \* the NLP engine of the detector (EmotionDetector.nlp)
    ratio,   \* the GoldenRatioAnalyzer instance (EmotionDetector.ratio)
    pc,      \* "idle", or "done" when a call has returned and its result is held
    op,      \* the operation called
    args,    \* its arguments
    result,  \* what it returned
    invoked, \* the calls it made to the detector's engine and analyzer
    tables,  \* the module-level tables: keywords, particles, profiles
    callers, \* concurrent callers: for each, its call and where it stands
    frames,  \* the local variables of the calls in progress
    namo,    \* the NaMoPersonality instance of the API (main.namo)
    brain,   \* the FusionBrain of the API's NRECore (main.nre.brain)
    analytics, \* analytics._analytics_store
    request, \* the /api/chat request in progress and how far it has got
    nre      \* the call of NRECore.process_request in progress

vars ==
    <<nlp, ratio, pc, op, args, result, invoked, tables, callers, frames,
      namo, brain, analytics, request, nre>>

\* the variables of the API
api == <<namo, brain, analytics, request, nre>>

\* the tables as the modules define them
ModuleTables ==
    [THAI_EMOTION_KEYWORDS |-> THAI_EMOTION_KEYWORDS,
     FORMAL_PARTICLES |-> FORMAL_PARTICLES,
     CASUAL_PARTICLES |-> CASUAL_PARTICLES,
     EMOTION_PROFILES |-> EMOTION_PROFILES]

MaxCallers == 2
Threads == 1..MaxCallers

\* a caller that is not in a call
NoCall ==
    [pc |-> "idle", op |-> "none", args |-> <<>>, result |-> None,
     overlapped |-> FALSE]

\* the local variables of detect before any is assigned
NewFrame ==
    [text |-> None, nlp_result |-> None, emotion_score |-> None,
     logic_score |-> None, ratio_result |-> None, suggestion |-> None,
     formality |-> None]

\* nothing called yet: engine n, analyzer r, personality p
IdleOf(n, r, p) ==
    /\ nlp = n
    /\ ratio = r
    /\ pc = "idle"
    /\ op = "none"
    /\ args = <<>>
    /\ result = <<>>
    /\ invoked = <<>>
    /\ tables = ModuleTables
    /\ callers = [t \in Threads |-> NoCall]
    /\ frames = [t \in Threads |-> NewFrame]
    /\ namo = p
    /\ brain = FusionBrain
    /\ analytics = <<>>
    /\ request = NoRequest
    /\ nre = NoProcessRequest

Idle(n, r) == IdleOf(n, r, NaMoPersonality)

Init == \E r \in ValidAnalyzers : Idle(ThaiNLPEngine, r)
InitAnyConfig == \E r \in AnyAnalyzers : Idle(ThaiNLPEngine, r)
InitCustomEngine ==
    \E n \in CustomEngines : Idle(n, GoldenRatioAnalyzer(PHI, Dec(0, 15, 2)))

\* a call of a detector operation, which leaves the detector as it was
CallLogged(o, a, res, log) ==
    /\ pc = "idle"
    /\ pc' = "done"
    /\ op' = o
    /\ args' = a
    /\ result' = res
    /\ invoked' = log
    /\ UNCHANGED <<nlp, ratio, tables, callers, frames, api>>

\* a call made on the engine or the analyzer itself
Call(o, a, res) == CallLogged(o, a, res, <<>>)

Analyze ==
    \E e \in Scores, l \in Scores :
        Call("analyze", <<e, l>>, analyze(ratio, e, l))

CalculateBalanceIndex ==
    \E e \in Scores, l \in Scores :
        Call("calculate_balance_index", <<e, l>>,
             calculate_balance_index(ratio, e, l))

SuggestAdjustment ==
    \E e \in Scores, l \in Scores :
        Call("suggest_adjustment", <<e, l>>, suggest_adjustment(ratio, e, l))

DetectEmotion ==
    \E text \in Texts :
        Call("detect_emotion", <<text>>, detect_emotion(text))

DetectFormality ==
    \E text \in Texts :
        Call("detect_formality", <<text>>, detect_formality(text))

Detect ==
    /\ pc = "idle"
    /\ \E text \in Texts :
           \E run \in {DetectRun(EmotionDetector(nlp, ratio), text)} :
               CallLogged("detect", <<text>>, run.value, run.calls)

DetectBatch ==
    /\ pc = "idle"
    /\ \E texts \in Batches :
           \E runs \in {BatchRuns(EmotionDetector(nlp, ratio), texts)} :
               CallLogged("detect_batch", <<texts>>, detect_batch(runs),
                          BatchCalls(runs, Len(runs)))

\* the caller has consumed the result
Return ==
    /\ pc = "done"
    /\ pc' = "idle"
    /\ op' = "none"
    /\ args' = <<>>
    /\ result' = <<>>
    /\ invoked' = <<>>
    /\ UNCHANGED <<nlp, ratio, tables, callers, frames, api>>

Next ==
    \/ Analyze
    \/ CalculateBalanceIndex
    \/ SuggestAdjustment
    \/ DetectEmotion
    \/ DetectFormality
    \/ Return

\* the calls of the detector's own operations
NextDetector ==
    \/ Detect
    \/ DetectBatch
    \/ Return

Spec == Init /\ [][Next]_vars
SpecAnyConfig == InitAnyConfig /\ [][Next]_vars
SpecDetector == Init /\ [][NextDetector]_vars
SpecCustomEngine == InitCustomEngine /\ [][NextDetector]_vars

(***************************************************************************)
(* Concurrent callers of one detector.  Each caller runs one call at a     *)
(* time; the steps of different callers interleave.  A step reads self.nlp,*)
(* self.ratio and the module tables as they are when it runs, and assigns  *)
(* only local variables of its own call.                                   *)
(***************************************************************************)
\* the texts and the scores the concurrent callers pass
ConcurrentTexts ==
    { <<32>>,
      <<3604, 3637, 3651, 3592>>,
      <<3650, 3585, 3619, 3608, 32, 97, 32, 98, 32, 99, 32, 100,
        32, 101, 32, 102, 32>> }
ConcurrentScores == { <<Dec(0, 8, 1), Dec(0, 5, 1)>> }

TextOperations == {"detect", "detect_emotion", "detect_formality"}
ScoreOperations == {"analyze", "calculate_balance_index", "suggest_adjustment"}

\* Mutant: detect keeps its intermediate values on the detector, where all
\* callers share them.
Frame_on_self(t) == 1

\* where the local variables of caller t's call live: in the call's own frame
Frame(t) == t

InitConcurrent == Idle(ThaiNLPEngine, GoldenRatioAnalyzer(PHI, Dec(0, 15, 2)))

\* a step of caller t, which leaves the detector and the tables as they were
CallerStep(t, caller, frame) ==
    /\ callers' = [callers EXCEPT ![t] = caller]
    /\ frames' = [frames EXCEPT ![Frame(t)] = frame]
    /\ UNCHANGED <<nlp, ratio, tables, pc, op, args, result, invoked, api>>

\* caller t is at the point named at in a call of detect
InDetect(t, at) == callers[t].op = "detect" /\ callers[t].pc = at

\* caller t enters a call
ConcurrentCall(t) ==
    /\ callers[t].pc = "idle"
    /\ \E o \in TextOperations \cup ScoreOperations :
         \E a \in IF o \in TextOperations THEN {<<text>> : text \in ConcurrentTexts}
                   ELSE ConcurrentScores :
            CallerStep(t,
                [pc |-> "called", op |-> o, args |-> a, result |-> None,
                 overlapped |->
                     \E u \in Threads \ {t} :
                         callers[u].pc \notin {"idle", "done"}],
                IF o = "detect" THEN [NewFrame EXCEPT !.text = a[1]]
                ELSE frames[Frame(t)])

\* the call of self.nlp or self.ratio that caller t is about to make: the
\* call it made on the component itself, or the one detect makes at the step
\* it has reached
ComponentOperation(t) ==
    CASE callers[t].pc = "called" -> callers[t].op
      [] callers[t].pc = "classify" -> "detect_emotion"
      [] callers[t].pc = "analyze" -> "analyze"
      [] callers[t].pc = "suggest" -> "suggest_adjustment"
      [] callers[t].pc = "formality" -> "detect_formality"

\* its arguments: those of the caller, or the local variables of detect
ComponentArguments(t) ==
    CASE callers[t].pc = "called" -> callers[t].args
      [] callers[t].pc \in {"classify", "formality"} ->
             <<frames[Frame(t)].text>>
      [] callers[t].pc \in {"analyze", "suggest"} ->
             <<frames[Frame(t)].emotion_score, frames[Frame(t)].logic_score>>

\* a call on the engine or the analyzer runs and returns: the caller has its
\* result, or detect assigns it to nlp_result (step 1), ratio_result (step
\* 3), suggestion (step 4) or formality (step 5) and goes on
ConcurrentComponentCall(t) ==
    /\ callers[t].pc \in {"called", "classify", "analyze", "suggest", "formality"}
    /\ ~InDetect(t, "called")
    /\ \E o \in {ComponentOperation(t)}, a \in {ComponentArguments(t)} :
         \E res \in {CASE o = "detect_emotion" -> NlpDetectEmotion(nlp, a[1])
                       [] o = "detect_formality" -> detect_formality(a[1])
                       [] o = "analyze" -> analyze(ratio, a[1], a[2])
                       [] o = "calculate_balance_index" ->
                              calculate_balance_index(ratio, a[1], a[2])
                       [] o = "suggest_adjustment" ->
                              suggest_adjustment(ratio, a[1], a[2])} :
            CASE callers[t].pc = "called" ->
                     CallerStep(t, [callers[t] EXCEPT !.pc = "done",
                                                      !.result = res],
                                frames[Frame(t)])
              [] callers[t].pc = "classify" ->
                     CallerStep(t, [callers[t] EXCEPT !.pc = "profile"],
                                [frames[Frame(t)] EXCEPT !.nlp_result = res])
              [] callers[t].pc = "analyze" ->
                     CallerStep(t, [callers[t] EXCEPT !.pc = "suggest"],
                                [frames[Frame(t)] EXCEPT !.ratio_result = res])
              [] callers[t].pc = "suggest" ->
                     CallerStep(t, [callers[t] EXCEPT !.pc = "formality"],
                                [frames[Frame(t)] EXCEPT !.suggestion = res])
              [] callers[t].pc = "formality" ->
                     CallerStep(t, [callers[t] EXCEPT !.pc = "build"],
                                [frames[Frame(t)] EXCEPT !.formality = res])

\* detect: the guard on empty text
DetectGuard(t) ==
    /\ InDetect(t, "called")
    /\ LET frame == frames[Frame(t)]
       IN  IF frame.text = <<>> \/ Strip(frame.text) = <<>>
           THEN CallerStep(t, [callers[t] EXCEPT !.pc = "done",
                                                 !.result = ZeroedResult],
                           NewFrame)
           ELSE CallerStep(t, [callers[t] EXCEPT !.pc = "classify"], frame)

\* detect: the profile of the emotion and the two scores
DetectProfile(t) ==
    /\ InDetect(t, "profile")
    /\ LET frame == frames[Frame(t)]
           nlp_result == frame.nlp_result
           profile ==
               IF nlp_result.emotion \in DOMAIN tables.EMOTION_PROFILES
               THEN tables.EMOTION_PROFILES[nlp_result.emotion]
               ELSE tables.EMOTION_PROFILES["neutral"]
       IN  CallerStep(t, [callers[t] EXCEPT !.pc = "analyze"],
                      [frame EXCEPT
                          !.emotion_score =
                              PyMax(FMul(profile.emotion_intensity,
                                         nlp_result.confidence), Dec(0, 1, 1)),
                          !.logic_score =
                              PyMax(FMul(profile.logic_clarity,
                                         nlp_result.confidence), Dec(0, 1, 1))])

\* detect: the DetectionResult is built from the local variables and
\* returned, and the frame of the call is gone
DetectBuild(t) ==
    /\ InDetect(t, "build")
    /\ LET frame == frames[Frame(t)]
       IN  CallerStep(t,
               [callers[t] EXCEPT
                   !.pc = "done",
                   !.result =
                       [emotion |-> frame.nlp_result.emotion,
                        confidence |-> frame.nlp_result.confidence,
                        harmonic_score |-> frame.ratio_result.harmonic_score,
                        balance_index |-> frame.ratio_result.balance_index,
                        is_balanced |-> frame.ratio_result.is_balanced,
                        keywords_found |-> frame.nlp_result.keywords_found,
                        formality |-> frame.formality.level,
                        adjustment_suggestion |-> frame.suggestion]],
               NewFrame)

\* the caller has consumed the result
ConcurrentReturn(t) ==
    /\ callers[t].pc = "done"
    /\ CallerStep(t, NoCall, frames[Frame(t)])

NextConcurrent ==
    \E t \in Threads :
        \/ ConcurrentCall(t)
        \/ ConcurrentComponentCall(t)
        \/ DetectGuard(t)
        \/ DetectProfile(t)
        \/ DetectBuild(t)
        \/ ConcurrentReturn(t)

SpecConcurrent == InitConcurrent /\ [][NextConcurrent]_vars

(***************************************************************************)
(* POST /api/chat.  The framework resolves the dependency verify_token,    *)
(* validates the body, and calls the endpoint, which the rate limiter      *)
(* wraps; the endpoint's background task runs once the response is made.   *)
(***************************************************************************)
MaxInteractions == 2

Users == {"alice", "bob"}

Authorizations ==
    {NoAuthorization, BasicAuthorization, BearerGarbage}
    \cup {BearerJwt([sub |-> u], SECRET_KEY, FALSE) : u \in Users}
    \cup {BearerJwt([sub |-> "alice"], SECRET_KEY, TRUE),
          BearerJwt([sub |-> "alice"], "another key", FALSE),
          BearerJwt([iat |-> 0], SECRET_KEY, FALSE)}

\* "", " ", "ดีใจ", "เศร้า ok ok ", "UNLOCK_FUSION", and a message of one
\* character more than ChatRequest allows
Messages ==
    { <<>>, <<32>>, <<3604, 3637, 3651, 3592>>,
      <<3648, 3624, 3619, 3657, 3634, 32, 111, 107, 32, 111, 107, 32>>,
      UNLOCK_FUSION,
      [i \in 1..(MAX_MESSAGE_LENGTH + 1) |-> 97] }

InitApi == Idle(ThaiNLPEngine, GoldenRatioAnalyzer(PHI, Dec(0, 15, 2)))

\* a step of the request, which leaves the detector as it was
RequestStep(req) ==
    /\ request' = req
    /\ UNCHANGED <<nlp, ratio, tables, pc, op, args, result, invoked,
                   callers, frames, nre>>

\* the request ends with the response given
Respond(response) ==
    RequestStep([request EXCEPT !.pc = "responded", !.response = response])

\* a client posts to /api/chat
ChatArrives ==
    /\ request.pc = "none"
    /\ namo.interaction_count < MaxInteractions
    /\ \E a \in Authorizations, m \in Messages :
           RequestStep([NoRequest EXCEPT !.pc = "received",
                                         !.authorization = a,
                                         !.message = m])
    /\ UNCHANGED <<namo, brain, analytics>>

\* Depends(verify_token), with its own dependency HTTPBearer()
Authenticate ==
    /\ request.pc = "received"
    /\ IF request.authorization.scheme # "Bearer"
       THEN \E status_code \in HTTPBearerRejections :
                Respond(HTTPException(status_code))
       ELSE LET user == verify_token(request.authorization)
            IN  IF "status_code" \in DOMAIN user
                THEN Respond(user)
                ELSE RequestStep([request EXCEPT !.pc = "authenticated",
                                                 !.principal = user])
    /\ UNCHANGED <<namo, brain, analytics>>

\* the body is validated as a ChatRequest
ValidateBody ==
    /\ request.pc = "authenticated"
    /\ LET chat_request == ChatRequest(request.message)
       IN  IF "status_code" \in DOMAIN chat_request
           THEN Respond(chat_request)
           ELSE RequestStep([request EXCEPT !.pc = "validated",
                                            !.chat_request = chat_request])
    /\ UNCHANGED <<namo, brain, analytics>>

\* limiter.limit: the call is let through or answered 429, as the count of
\* the client's address in the current minute decides
RateLimit ==
    /\ request.pc = "validated"
    /\ \E exceeded \in BOOLEAN :
           IF exceeded THEN Respond(HTTPException(429))
           ELSE RequestStep([request EXCEPT !.pc = "admitted"])
    /\ UNCHANGED <<namo, brain, analytics>>

\* the body of chat, and its background task
Chat ==
    /\ request.pc = "admitted"
    /\ \E emotion_result \in
             {detect(EmotionDetector(nlp, ratio), request.chat_request.message)},
          draw \in Draws, mock_emotion \in RandomDraws, mock_logic \in RandomDraws :
       LET user_id == request.principal.user_id
           message == request.chat_request.message
           processed == process(brain, message, user_id, mock_emotion, mock_logic)
           personality ==
               generate_response(namo, message, emotion_result.emotion,
                                 emotion_result.formality, draw).self
       IN  /\ brain' = processed.self
           /\ namo' = personality
           /\ analytics' = record_interaction(analytics, user_id,
                                             emotion_result.emotion,
                                             emotion_result.harmonic_score)
           /\ RequestStep(
                [request EXCEPT
                    !.pc = "responded",
                    !.invoked = << [fn |-> "detect", args |-> <<message>>],
                                   [fn |-> "process_request",
                                    args |-> <<message, user_id>>],
                                   [fn |-> "generate_response",
                                    args |-> <<message, emotion_result.emotion,
                                               emotion_result.formality>>],
                                   [fn |-> "_record_interaction",
                                    args |-> <<user_id, emotion_result.emotion,
                                               emotion_result.harmonic_score>>] >>,
                    !.response =
                        [status_code |-> 200,
                         response |-> processed.value.reply,
                         emotion |-> emotion_result.emotion,
                         harmonic_score |-> emotion_result.harmonic_score,
                         user_id |-> user_id,
                         namo_mood |-> personality.mood,
                         balance_index |-> emotion_result.balance_index]])

\* the client has received the response
ResponseSent ==
    /\ request.pc = "responded"
    /\ RequestStep(NoRequest)
    /\ UNCHANGED <<namo, brain, analytics>>

NextApi ==
    \/ ChatArrives
    \/ Authenticate
    \/ ValidateBody
    \/ RateLimit
    \/ Chat
    \/ ResponseSent

SpecApi == InitApi /\ [][NextApi]_vars

(***************************************************************************)
(* The personality engine on its own: generate_response, get_greeting and  *)
(* get_state called in any order on one instance.                          *)
(***************************************************************************)
MaxResponses == 3

\* the default configuration, one with another of the five moods, and one
\* with a mood of its own
PersonalityConfigs ==
    {PersonalityConfig, [default_mood |-> "serious"], [default_mood |-> "sleepy"]}

\* the labels of the classifier, and one it does not know
Emotions == {"joy", "love", "sadness", "anger", "fear", "neutral", "surprise"}

\* messages of 0, 10 and 50 characters
UserMessages == {<<>>, [i \in 1..10 |-> 97], [i \in 1..50 |-> 97]}

Formalities == {"formal", "casual", "neutral"}

InitNamo ==
    \E config \in PersonalityConfigs :
        IdleOf(ThaiNLPEngine, GoldenRatioAnalyzer(PHI, Dec(0, 15, 2)),
               NaMoPersonalityOf(config))

GenerateResponse ==
    /\ pc = "idle"
    /\ namo.interaction_count < MaxResponses
    /\ \E user_message \in UserMessages, emotion \in Emotions,
          formality \in Formalities, draw \in Draws :
           \E call \in {generate_response(namo, user_message, emotion,
                                           formality, draw)} :
               /\ namo' = call.self
               /\ pc' = "done"
               /\ op' = "generate_response"
               /\ args' = <<user_message, emotion, formality>>
               /\ result' = call.value
    /\ invoked' = <<>>
    /\ UNCHANGED <<nlp, ratio, tables, callers, frames, brain, analytics,
                   request, nre>>

GetGreeting ==
    /\ pc = "idle"
    /\ Call("get_greeting", <<>>, get_greeting(namo))

GetState ==
    /\ pc = "idle"
    /\ Call("get_state", <<>>, get_state(namo))

NextNamo ==
    \/ GenerateResponse
    \/ GetGreeting
    \/ GetState
    \/ Return

SpecNamo == InitNamo /\ [][NextNamo]_vars

(***************************************************************************)
(* The brain on its own: process called any number of times on one         *)
(* FusionBrain.                                                            *)
(***************************************************************************)
\* "", "hi", "UNLOCK_FUSION", "xUNLOCK_FUSIONy", "unlock_fusion",
\* "UNLOCK_FUSIO", "UNLOCK FUSION"
BrainInputs ==
    { <<>>, <<104, 105>>, UNLOCK_FUSION, <<120>> \o UNLOCK_FUSION \o <<121>>,
      <<117, 110, 108, 111, 99, 107, 95, 102, 117, 115, 105, 111, 110>>,
      SubSeq(UNLOCK_FUSION, 1, 12),
      <<85, 78, 76, 79, 67, 75, 32, 70, 85, 83, 73, 79, 78>> }

InitBrain == Idle(ThaiNLPEngine, GoldenRatioAnalyzer(PHI, Dec(0, 15, 2)))

Process ==
    /\ pc = "idle"
    /\ \E user_input \in BrainInputs, user_id \in Users,
          mock_emotion \in RandomDraws, mock_logic \in RandomDraws :
           \E call \in {process(brain, user_input, user_id, mock_emotion,
                                 mock_logic)} :
               /\ brain' = call.self
               /\ pc' = "done"
               /\ op' = "process"
               /\ args' = <<user_input, user_id>>
               /\ result' = call.value
    /\ invoked' = <<>>
    /\ UNCHANGED <<nlp, ratio, tables, callers, frames, namo, analytics,
                   request, nre>>

NextBrain ==
    \/ Process
    \/ Return

SpecBrain == InitBrain /\ [][NextBrain]_vars

(***************************************************************************)
(* The emotion analyzer of /api/emotion/analyze on its own.                *)
(***************************************************************************)
\* " ", "!", "happy ", "LOVE ", a Thai positive word, "sad ", "so ", a Thai
\* logic hint, "great stress angry! ", "because therefore so " with a Thai
\* hint, six words, twelve words, and a tab with a newline
EmotionPieces ==
    { <<32>>,
      <<33>>,
      <<104, 97, 112, 112, 121, 32>>,
      <<76, 79, 86, 69, 32>>,
      <<3604, 3637, 3651, 3592>>,
      <<115, 97, 100, 32>>,
      <<115, 111, 32>>,
      <<3648, 3614, 3619, 3634, 3632>>,
      <<103, 114, 101, 97, 116, 32, 115, 116, 114, 101, 115, 115, 32, 97, 110, 103, 114, 121, 33, 32>>,
      <<98, 101, 99, 97, 117, 115, 101, 32, 116, 104, 101, 114, 101, 102, 111, 114, 101, 32, 115, 111, 32, 3626, 3619, 3640, 3611, 32>>,
      <<97, 32, 98, 32, 99, 32, 100, 32, 101, 32, 102, 32>>,
      <<97, 32, 98, 32, 99, 32, 100, 32, 101, 32, 102, 32, 103, 32, 104, 32, 105, 32, 106, 32, 107, 32, 108, 32>>,
      <<9, 10>> }

MaxEmotionPieces == 2

\* the texts of at most n pieces
RECURSIVE EmotionTextsOf(_)
EmotionTextsOf(n) ==
    IF n = 0 THEN {<<>>}
    ELSE LET shorter == EmotionTextsOf(n - 1)
         IN  shorter \cup {t \o piece : t \in shorter, piece \in EmotionPieces}

\* what analyze is given as text: a string or None
EmotionTexts == {Str(t) : t \in EmotionTextsOf(MaxEmotionPieces)} \cup {None}

\* what analyze is given as context: None, {} or a dict with has_history
Contexts ==
    {None, Dict(<<>>), Dict(<<[key |-> "has_history", value |-> TRUE]>>),
     Dict(<<[key |-> "has_history", value |-> FALSE]>>)}

AnalyzeText ==
    /\ pc = "idle"
    /\ \E text \in EmotionTexts, context \in Contexts :
           Call("analyze_text", <<text, context>>,
                analyze_text(GoldenRatioEmotionAnalyzer, text, context))

NextEmotion ==
    \/ AnalyzeText
    \/ Return

InitEmotion == Idle(ThaiNLPEngine, GoldenRatioAnalyzer(PHI, Dec(0, 15, 2)))

SpecEmotion == InitEmotion /\ [][NextEmotion]_vars

(***************************************************************************)
(* The anonymizer on its own.                                              *)
(***************************************************************************)
MaxDepth == 3

\* two redacted keys and two others
PayloadKeys == {"email", "full_name", "name", "messages"}

\* the payloads without a container: a str and None
Scalars == {Str(<<97>>), None}

\* the payloads nested at most depth deep: dicts of one item, dicts of two
\* items, lists of one item and lists of two items (the first item of two
\* is a scalar)
RECURSIVE PayloadsOf(_)
PayloadsOf(depth) ==
    IF depth = 0 THEN Scalars
    ELSE LET inner == PayloadsOf(depth - 1)
         IN  inner
             \cup {Dict(<<[key |-> k, value |-> v]>>) : k \in PayloadKeys, v \in inner}
             \cup {Dict(<<[key |-> "email", value |-> a], [key |-> "name", value |-> v]>>) :
                       a \in Scalars, v \in inner}
             \cup {List(<<v>>) : v \in inner}
             \cup {List(<<a, v>>) : a \in Scalars, v \in inner}

\* the conversations anonymize_conversation is given: dicts
Conversations == {payload \in PayloadsOf(MaxDepth) : IsDict(payload)}

AnonymizeConversation ==
    /\ pc = "idle"
    /\ \E conversation \in Conversations :
           Call("anonymize_conversation", <<conversation>>,
                anonymize_conversation(conversation))

NextPdpa ==
    \/ AnonymizeConversation
    \/ Return

InitPdpa == Idle(ThaiNLPEngine, GoldenRatioAnalyzer(PHI, Dec(0, 15, 2)))

SpecPdpa == InitPdpa /\ [][NextPdpa]_vars

(***************************************************************************)
(* NRECore.process_request on its own, with a brain whose process returns  *)
(* or raises, and fibonacci_backoff called directly.                       *)
(***************************************************************************)
\* the values of the parameter attempts a call is made with: 0 is the
\* default, with which chat calls it
GivenAttempts == {-8, -2, -1, 0, 1, 3, 5, 6}

\* the attempt numbers fibonacci_backoff is called with directly
MaxAttempt == 9
AttemptNumbers == (-MaxAttempt)..MaxAttempt

\* a step of the call, which leaves the rest as it was
ProcessRequestStep(call) ==
    /\ nre' = call
    /\ UNCHANGED <<nlp, ratio, tables, pc, op, args, result, invoked,
                   callers, frames, namo, analytics, request>>

\* process_request(message, user_id, attempts) is called
ProcessRequest ==
    /\ nre.pc = "none"
    /\ pc = "idle"
    /\ \E message \in {<<104, 105>>, UNLOCK_FUSION}, attempts \in GivenAttempts :
           ProcessRequestStep([NoProcessRequest EXCEPT !.pc = "trying",
                                                       !.message = message,
                                                       !.user_id = "alice",
                                                       !.given = attempts,
                                                       !.attempts = attempts])
    /\ UNCHANGED brain

\* self.brain.process(message, user_id) returns, and so does process_request
BrainReturns ==
    /\ nre.pc = "trying"
    /\ \E call \in {process(brain, nre.message, nre.user_id, Zero, Zero)} :
           /\ brain' = call.self
           /\ ProcessRequestStep([nre EXCEPT !.pc = "returned",
                                             !.invocations = @ + 1,
                                             !.outcome = call.value])

\* self.brain.process(message, user_id) raises, and the except clause runs
\* up to its sleep or its raise
BrainRaises ==
    /\ nre.pc = "trying"
    /\ ProcessRequestStep(on_exception([nre EXCEPT !.invocations = @ + 1]))
    /\ UNCHANGED brain

\* the sleep is over: process_request calls itself with attempts + 1
Retry ==
    /\ nre.pc = "sleeping"
    /\ ProcessRequestStep([nre EXCEPT !.pc = "trying", !.attempts = @ + 1])
    /\ UNCHANGED brain

\* the caller has the result or the exception
ProcessRequestEnds ==
    /\ nre.pc \in {"returned", "raised"}
    /\ ProcessRequestStep(NoProcessRequest)
    /\ UNCHANGED brain

FibonacciBackoff ==
    /\ pc = "idle"
    /\ nre.pc = "none"
    /\ \E attempt \in AttemptNumbers :
           Call("fibonacci_backoff", <<attempt>>, fibonacci_backoff(attempt))

NextNre ==
    \/ ProcessRequest
    \/ BrainReturns
    \/ BrainRaises
    \/ Retry
    \/ ProcessRequestEnds
    \/ FibonacciBackoff
    \/ Return

InitNre == Idle(ThaiNLPEngine, GoldenRatioAnalyzer(PHI, Dec(0, 15, 2)))

\* the event loop runs a coroutine that can run: the brain answers, and a
\* sleep ends
SpecNre ==
    /\ InitNre
    /\ [][NextNre]_vars
    /\ WF_vars(BrainReturns \/ BrainRaises)
    /\ WF_vars(Retry)

(***************************************************************************)
(* The claims.                                                             *)
(***************************************************************************)
Done(o) == pc = "done" /\ op = o
InUnit(v) == FLe(Zero, v) /\ FLe(v, One)
Within(v, target, tol) == FLe(FAbs(FSub(v, target)), tol)
Half == Dec(0, 5, 1)
\* clamp(x) = max(0, min(1, x)), evaluated as Python evaluates it
Clamp(v) == PyMax(Zero, PyMin(One, v))

\* C1: for scores e, l in [0, 1], analyze(e, l).harmonic_score is
\* emotion_weight*e + logic_weight*l rounded to 6 decimals; with the default
\* phi, analyze(1, 0) is within 0.001 of 0.618 and analyze(0, 1) within 0.001
\* of 0.382; analyze(0.5, 0.5) is exactly 0.5.
C1_HarmonicScore ==
    Done("analyze") =>
        LET e == args[1]
            l == args[2]
            h == result.harmonic_score
        IN  /\ (InUnit(e) /\ InUnit(l)) =>
                  h = FRound(FAdd(FMul(ratio.emotion_weight, e),
                                  FMul(ratio.logic_weight, l)), 6)
            /\ (ratio.phi = PHI /\ e = One /\ l = Zero) =>
                  Within(h, Dec(0, 618, 3), Dec(0, 1, 3))
            /\ (ratio.phi = PHI /\ e = Zero /\ l = One) =>
                  Within(h, Dec(0, 382, 3), Dec(0, 1, 3))
            /\ (e = Half /\ l = Half) => h = Half

C1_Witness ==
    /\ Done("analyze")
    /\ ratio.phi = PHI
    /\ args = <<One, Zero>>
    /\ result.harmonic_score = Dec(0, 618034, 6)

\* C2: analyze never raises on out-of-range scores and returns for (e, l)
\* exactly the result (all five fields) it returns for (clamp(e), clamp(l)).
C2_ClampsInput ==
    Done("analyze") =>
        /\ result = analyze(ratio, Clamp(args[1]), Clamp(args[2]))
        /\ \A f \in {"harmonic_score", "emotion_component", "logic_component",
                     "balance_index"} : result[f].k = "fin"
        /\ (args = <<FNeg(Half), FAdd(One, Half)>>) =>
               result = analyze(ratio, Zero, One)

C2_Witness ==
    /\ Done("analyze")
    /\ args = <<FNeg(Half), FAdd(One, Half)>>
    /\ result.emotion_component = Zero
    /\ result.logic_component = FRound(ratio.logic_weight, 6)

\* C3: with logic_score == 0 calculate_balance_index returns exactly 1.0 when
\* emotion_score > 0 and exactly 0.0 otherwise, and no call divides by zero;
\* analyze(0, 0) is balanced with balance_index 0, and analyze(e, 0) for e > 0
\* has balance_index 1.0.
C3_ZeroLogic ==
    /\ Done("calculate_balance_index") =>
          /\ result.k # "raise"
          /\ FEq(args[2], Zero) =>
                 result = IF FGt(args[1], Zero) THEN One ELSE Zero
    /\ Done("analyze") =>
          /\ result.balance_index.k # "raise"
          /\ (args = <<Zero, Zero>>) =>
                 result.is_balanced /\ result.balance_index = Zero
          /\ (FGt(args[1], Zero) /\ FEq(args[2], Zero)) =>
                 result.balance_index = One

C3_Witness ==
    /\ Done("calculate_balance_index")
    /\ args = <<Half, Zero>>
    /\ result = One

\* the bound on |calculate_balance_index(phi*x, x)|: one unit in the last
\* place of a float in [1, 2)
Ulp == FDiv(One, RoundBig(FALSE, BShl(<<1>>, MantBits - 1), 0))

\* C4 (as claimed): for logic_score # 0 the index is (e/l - phi)/phi; it is 0
\* exactly when e = phi*l, positive exactly when e/l > phi and negative
\* exactly when e/l < phi.
C4_Original ==
    (Done("calculate_balance_index") /\ ~FEq(args[2], Zero)) =>
        LET e == args[1]
            l == args[2]
        IN  /\ result = FDiv(FSub(FDiv(e, l), ratio.phi), ratio.phi)
            /\ FEq(result, Zero) <=> FEq(e, FMul(ratio.phi, l))
            /\ FGt(result, Zero) <=> FGt(FDiv(e, l), ratio.phi)
            /\ FLt(result, Zero) <=> FLt(FDiv(e, l), ratio.phi)

\* C4 (amended): for logic_score # 0 the index is (e/l - phi)/phi in float
\* arithmetic; it is 0 exactly when the float quotient e/l equals phi,
\* positive exactly when e/l > phi and negative exactly when e/l < phi; for
\* e = phi*x with x > 0 it is within 2^-52 of 0, not always 0.
C4_BalanceIndex ==
    (Done("calculate_balance_index") /\ ~FEq(args[2], Zero)) =>
        LET e == args[1]
            l == args[2]
        IN  /\ result = FDiv(FSub(FDiv(e, l), ratio.phi), ratio.phi)
            /\ FEq(result, Zero) <=> FEq(FDiv(e, l), ratio.phi)
            /\ FGt(result, Zero) <=> FGt(FDiv(e, l), ratio.phi)
            /\ FLt(result, Zero) <=> FLt(FDiv(e, l), ratio.phi)
            /\ (FGt(l, Zero) /\ FEq(e, FMul(ratio.phi, l))) =>
                   FLe(FAbs(result), Ulp)

C4_Witness ==
    /\ Done("calculate_balance_index")
    /\ ratio.phi = PHI
    /\ args = <<FMul(PHI, Dec(0, 1, 1)), Dec(0, 1, 1)>>
    /\ FGt(result, Zero)
    /\ FLe(result, Ulp)

\* C5 (as claimed): is_balanced is true exactly when the absolute value of
\* the result's balance_index field (rounded to 6 decimals) is at most the
\* threshold.
C5_Original ==
    Done("analyze") =>
        (result.is_balanced <=>
            FLe(FAbs(result.balance_index), ratio.balance_threshold))

\* C5 (amended): is_balanced is true exactly when the absolute value of the
\* unrounded calculate_balance_index of the clamped scores is at most the
\* threshold; the balance_index field is that value rounded to 6 decimals.
C5_IsBalanced ==
    Done("analyze") =>
        LET b == calculate_balance_index(ratio, Clamp(args[1]), Clamp(args[2]))
        IN  /\ result.is_balanced <=> FLe(FAbs(b), ratio.balance_threshold)
            /\ result.balance_index = FRound(b, 6)

C5_Witness ==
    /\ Done("analyze")
    /\ args = <<Dec(0, 9303697, 7), Half>>
    /\ ratio.balance_threshold = Dec(0, 15, 2)
    /\ result.balance_index = Dec(0, 15, 2)
    /\ ~result.is_balanced

\* C6 (as claimed): for any threshold and any scores, with b the balance
\* index, the direction is increase_logic iff b > threshold,
\* increase_emotion iff b < -threshold, and balanced otherwise.
C6_Original ==
    Done("suggest_adjustment") =>
        LET b == calculate_balance_index(ratio, args[1], args[2])
            t == ratio.balance_threshold
        IN  /\ result.direction = "increase_logic" <=> FGt(b, t)
            /\ result.direction = "increase_emotion" <=> FLt(b, FNeg(t))
            /\ result.direction = "balanced" <=> ~FGt(b, t) /\ ~FLt(b, FNeg(t))

\* C6 (amended): the same, for analyzers whose threshold is >= 0 and scores
\* whose balance index is a number (not nan).
C6_Direction ==
    Done("suggest_adjustment") =>
        LET b == calculate_balance_index(ratio, args[1], args[2])
            t == ratio.balance_threshold
        IN  (FGe(t, Zero) /\ ~IsNaN(b)) =>
            /\ result.direction = "increase_logic" <=> FGt(b, t)
            /\ result.direction = "increase_emotion" <=> FLt(b, FNeg(t))
            /\ result.direction = "balanced" <=> ~FGt(b, t) /\ ~FLt(b, FNeg(t))

C6_Witness ==
    /\ Done("suggest_adjustment")
    /\ ratio.balance_threshold = Dec(0, 15, 2)
    /\ args = <<One, Dec(0, 1, 1)>>
    /\ result.direction = "increase_logic"

C8_Original ==
    /\ ratio.emotion_weight = FDiv(One, ratio.phi)
    /\ ratio.logic_weight = FSub(One, ratio.emotion_weight)
    /\ FEq(FAdd(ratio.emotion_weight, ratio.logic_weight), One)

\* C8 (amended): for every non-zero phi, emotion_weight = 1/phi and
\* logic_weight = 1 - emotion_weight at construction and after any sequence
\* of calls; their float sum is exactly 1.0 when phi is positive, and within
\* 1e-10 of 1.0 for the negative phi of the model.
C8_WeightsSumToOne ==
    /\ ratio.emotion_weight = FDiv(One, ratio.phi)
    /\ ratio.logic_weight = FSub(One, ratio.emotion_weight)
    /\ FGt(ratio.phi, Zero) =>
           FEq(FAdd(ratio.emotion_weight, ratio.logic_weight), One)
    /\ Within(FAdd(ratio.emotion_weight, ratio.logic_weight), One,
              Dec(0, 1, 10))

C8_Witness ==
    /\ pc = "done"
    /\ ratio.phi = PHI
    /\ ratio.logic_weight = Dec(38196601, 12501052, 16)
    /\ ratio.logic_weight = FSub(One, ratio.emotion_weight)
    /\ FEq(FAdd(ratio.emotion_weight, ratio.logic_weight), One)

\* a text that is empty or consists only of whitespace
IsBlank(text) == \A i \in 1..Len(text) : IsSpace(text[i])

\* C9 (as claimed): detect_emotion returns neutral with confidence 0.0 and
\* no keywords for every text that is empty or consists only of whitespace.
C9_BlankText ==
    (Done("detect_emotion") /\ IsBlank(args[1])) =>
        result = [emotion |-> "neutral", confidence |-> Zero,
                  keywords_found |-> <<>>]

\* C10: when some category has a keyword hit, detect_emotion returns the
\* category of highest confidence, the first of them in the order joy,
\* sadness, anger, fear, love, neutral when several share it, and
\* keywords_found is exactly the matched keywords of that category.
C10_HighestConfidence ==
    /\ [i \in 1..Len(THAI_EMOTION_KEYWORDS) |-> THAI_EMOTION_KEYWORDS[i].emotion]
           = <<"joy", "sadness", "anger", "fear", "love", "neutral">>
    /\ Done("detect_emotion") =>
        LET normalized == normalize(args[1])
            tokens == tokenize(normalized)
            tokens_lower == [i \in 1..Len(tokens) |-> Lower(tokens[i])]
            Hits(c) == Matched(THAI_EMOTION_KEYWORDS[c].keywords,
                               normalized, tokens_lower)
            Conf(c) == Confidence(Hits(c), tokens)
            hit == {c \in 1..Len(THAI_EMOTION_KEYWORDS) : Hits(c) # <<>>}
        IN  hit # {} =>
              \E c \in hit :
                  /\ result.emotion = THAI_EMOTION_KEYWORDS[c].emotion
                  /\ result.keywords_found = Hits(c)
                  /\ \A d \in hit : FLe(Conf(d), Conf(c))
                  /\ \A d \in hit : d < c => FLt(Conf(d), Conf(c))

\* the text "คิดถึง", a keyword of sadness and of love
C10_Witness ==
    /\ Done("detect_emotion")
    /\ args = << <<3588, 3636, 3604, 3606, 3638, 3591>> >>
    /\ result = [emotion |-> "sadness", confidence |-> One,
                 keywords_found |-> << <<3588, 3636, 3604, 3606, 3638, 3591>> >>]

\* C11: for a non-empty text the confidence returned by detect_emotion is 0.3,
\* with emotion neutral and no keywords, when no category has a hit, and
\* otherwise min(hits / max(token_count, 1) * 2.0, 1.0) of the winning
\* category rounded to 4 decimals; it always lies in [0, 1].
C11_Confidence ==
    (Done("detect_emotion") /\ args[1] # <<>>) =>
        LET normalized == normalize(args[1])
            tokens == tokenize(normalized)
            tokens_lower == [i \in 1..Len(tokens) |-> Lower(tokens[i])]
            token_count == IF Len(tokens) > 1 THEN Len(tokens) ELSE 1
            Hits(c) == Matched(THAI_EMOTION_KEYWORDS[c].keywords,
                               normalized, tokens_lower)
            hit == {c \in 1..Len(THAI_EMOTION_KEYWORDS) : Hits(c) # <<>>}
        IN  /\ hit = {} =>
                  result = [emotion |-> "neutral", confidence |-> Dec(0, 3, 1),
                            keywords_found |-> <<>>]
            /\ hit # {} =>
                  \E c \in hit :
                      /\ result.emotion = THAI_EMOTION_KEYWORDS[c].emotion
                      /\ result.confidence =
                            FRound(PyMin(FMul(FDiv(FromInt(Len(Hits(c))),
                                                   FromInt(token_count)),
                                              Two),
                                         One), 4)
            /\ InUnit(result.confidence)

\* the text "เศร้า ok ok ": three tokens, one of them a keyword of sadness
C11_Witness ==
    /\ Done("detect_emotion")
    /\ args = << <<3648, 3624, 3619, 3657, 3634, 32, 111, 107, 32, 111, 107, 32>> >>
    /\ result.emotion = "sadness"
    /\ result.confidence = Dec(0, 6667, 4)

\* the numbers of formal and of casual particles that occur in a text
FormalCount(text) ==
    Cardinality({i \in 1..Len(FORMAL_PARTICLES) : Contains(text, FORMAL_PARTICLES[i])})
CasualCount(text) ==
    Cardinality({i \in 1..Len(CASUAL_PARTICLES) : Contains(text, CASUAL_PARTICLES[i])})

\* formal iff score >= 0.6, casual iff score <= 0.4, neutral iff in between
LevelMatches(level, score) ==
    /\ level = "formal" <=> FGe(score, Dec(0, 6, 1))
    /\ level = "casual" <=> FLe(score, Dec(0, 4, 1))
    /\ level = "neutral" <=> FLt(Dec(0, 4, 1), score) /\ FLt(score, Dec(0, 6, 1))

\* C12 (as claimed): detect_formality never raises; empty text or no matched
\* particle gives {neutral, 0.5, no markers}; otherwise the score is
\* formal_count / (formal_count + casual_count) and the level is formal iff
\* score >= 0.6, casual iff score <= 0.4 and neutral in between, so
\* only-formal text is formal with score > 0.5 and only-casual text casual
\* with score < 0.5.
C12_Original ==
    Done("detect_formality") =>
        LET formal_count == FormalCount(args[1])
            casual_count == CasualCount(args[1])
            total == formal_count + casual_count
        IN  /\ total = 0 =>
                  result = [level |-> "neutral", score |-> Dec(0, 5, 1),
                            markers_found |-> <<>>]
            /\ total > 0 =>
                  /\ result.score = FDiv(FromInt(formal_count), FromInt(total))
                  /\ LevelMatches(result.level, result.score)
                  /\ casual_count = 0 =>
                        result.level = "formal" /\ FGt(result.score, Dec(0, 5, 1))
                  /\ formal_count = 0 =>
                        result.level = "casual" /\ FLt(result.score, Dec(0, 5, 1))

\* C12 (amended): the same, except that the score returned is
\* formal_count / (formal_count + casual_count) rounded to 4 decimals; the
\* level is decided on the unrounded quotient, and the rounded score falls on
\* the same side of 0.6 and 0.4.
C12_FormalityLevel ==
    Done("detect_formality") =>
        LET formal_count == FormalCount(args[1])
            casual_count == CasualCount(args[1])
            total == formal_count + casual_count
            quotient == FDiv(FromInt(formal_count), FromInt(total))
        IN  /\ result.level \in {"formal", "casual", "neutral"}
            /\ total = 0 =>
                  result = [level |-> "neutral", score |-> Dec(0, 5, 1),
                            markers_found |-> <<>>]
            /\ total > 0 =>
                  /\ result.score = FRound(quotient, 4)
                  /\ LevelMatches(result.level, quotient)
                  /\ LevelMatches(result.level, result.score)
                  /\ casual_count = 0 =>
                        result.level = "formal" /\ FGt(result.score, Dec(0, 5, 1))
                  /\ formal_count = 0 =>
                        result.level = "casual" /\ FLt(result.score, Dec(0, 5, 1))

\* the text "ครับจ้านะ": one formal particle and two casual ones
C12_Witness ==
    /\ Done("detect_formality")
    /\ args = << <<3588, 3619, 3633, 3610, 3592, 3657, 3634, 3609, 3632>> >>
    /\ result.level = "casual"
    /\ result.score = Dec(0, 3333, 4)

\* the occurrences in a text of the particles of a list, all of them counted
RECURSIVE TotalOccurrences(_, _, _)
TotalOccurrences(text, particles, n) ==
    IF n = 0 THEN 0
    ELSE TotalOccurrences(text, particles, n - 1) + Occurrences(text, particles[n])

\* C13 (as claimed): formal_count and casual_count are the numbers of
\* occurrences of the particles in the text, a particle that occurs k times
\* contributing k to its count and to the score.
C13_Original ==
    Done("detect_formality") =>
        LET formal_count ==
                TotalOccurrences(args[1], FORMAL_PARTICLES, Len(FORMAL_PARTICLES))
            casual_count ==
                TotalOccurrences(args[1], CASUAL_PARTICLES, Len(CASUAL_PARTICLES))
            total == formal_count + casual_count
        IN  total > 0 =>
                result.score =
                    FRound(FDiv(FromInt(formal_count), FromInt(total)), 4)

\* C13 (amended): formal_count and casual_count are the numbers of distinct
\* particles of each list that occur in the text; a particle adds 1 to its
\* count however often it occurs, and markers_found lists each particle found
\* once, the formal ones first.
C13_DistinctParticles ==
    Done("detect_formality") =>
        LET formal_count == FormalCount(args[1])
            casual_count == CasualCount(args[1])
            total == formal_count + casual_count
        IN  /\ Len(result.markers_found) = total
            /\ \A i, j \in 1..total :
                   i # j => result.markers_found[i] # result.markers_found[j]
            /\ \A i \in 1..total :
                   /\ Occurrences(args[1], result.markers_found[i]) >= 1
                   /\ i <= formal_count <=> In(result.markers_found[i], FORMAL_PARTICLES)
            /\ total > 0 =>
                   result.score =
                       FRound(FDiv(FromInt(formal_count), FromInt(total)), 4)

\* the text "ครับนะครับ": the formal particle twice, a casual one once
C13_Witness ==
    /\ Done("detect_formality")
    /\ args = << <<3588, 3619, 3633, 3610, 3609, 3632, 3588, 3619, 3633, 3610>> >>
    /\ Occurrences(args[1], FORMAL_PARTICLES[1]) = 2
    /\ result.score = Dec(0, 5, 1)
    /\ result.level = "neutral"

\* the calls made to the analyzer among the calls logged
BalancerCalls(log) ==
    SelectSeq(log, LAMBDA c : c.fn \in {"analyze", "calculate_balance_index",
                                         "suggest_adjustment"})
ClassifierCalls(log) ==
    SelectSeq(log, LAMBDA c : c.fn \in {"detect_emotion", "detect_formality"})

\* C14: for every text that is empty or only whitespace, detect returns
\* emotion neutral, confidence 0.0, harmonic_score 0.0, balance_index 0.0,
\* is_balanced True, no keywords and formality neutral, without raising and
\* without calling the classifier or the balancer.
C14_BlankTextZeroed ==
    (Done("detect") /\ IsBlank(args[1])) =>
        /\ result.emotion = "neutral"
        /\ result.confidence = Zero
        /\ result.harmonic_score = Zero
        /\ result.balance_index = Zero
        /\ result.is_balanced = TRUE
        /\ result.keywords_found = <<>>
        /\ result.formality = "neutral"
        /\ ClassifierCalls(invoked) = <<>>
        /\ BalancerCalls(invoked) = <<>>

\* the text " \n"
C14_Witness ==
    /\ Done("detect")
    /\ args = << <<32, 10>> >>
    /\ result.is_balanced
    /\ result.confidence = Zero
    /\ invoked = <<>>

\* what C15 says of a call of detect on text: the scores handed to the
\* balancer are max(intensity * confidence, 0.1) and max(clarity *
\* confidence, 0.1), they lie in [0.1, 1], and the result carries what
\* analyze returns for them
ScoresFloored(text) ==
    LET nlp_result == NlpDetectEmotion(nlp, text)
        profile == EMOTION_PROFILES[nlp_result.emotion]
        floor == Dec(0, 1, 1)
        emotion_score ==
            PyMax(FMul(profile.emotion_intensity, nlp_result.confidence), floor)
        logic_score ==
            PyMax(FMul(profile.logic_clarity, nlp_result.confidence), floor)
        expected == analyze(ratio, emotion_score, logic_score)
        passed == BalancerCalls(invoked)
    IN  /\ passed # <<>>
        /\ \A i \in 1..Len(passed) : passed[i].args = <<emotion_score, logic_score>>
        /\ FLe(floor, emotion_score) /\ FLe(emotion_score, One)
        /\ FLe(floor, logic_score) /\ FLe(logic_score, One)
        /\ ~FEq(logic_score, Zero)
        /\ result.harmonic_score = expected.harmonic_score
        /\ result.balance_index = expected.balance_index
        /\ result.is_balanced = expected.is_balanced

\* C15 (as claimed): for every non-empty text, detect hands the balancer
\* emotion_score = max(intensity * confidence, 0.1) and logic_score =
\* max(clarity * confidence, 0.1), both in [0.1, 1] and logic_score never 0,
\* and harmonic_score, balance_index and is_balanced of the result are those
\* of analyze on these scores.
C15_Original ==
    (Done("detect") /\ args[1] # <<>>) => ScoresFloored(args[1])

\* C15 (amended): the same for every text that is neither empty nor only
\* whitespace; for a whitespace-only text the balancer is not called.
C15_ScoresFloored ==
    Done("detect") =>
        /\ ~IsBlank(args[1]) => ScoresFloored(args[1])
        /\ IsBlank(args[1]) => BalancerCalls(invoked) = <<>>

\* the text "โกรธ a b c d e f ": one hit in seven tokens, so that
\* clarity * confidence is below the floor
C15_Witness ==
    /\ Done("detect")
    /\ args = << <<3650, 3585, 3619, 3608, 32, 97, 32, 98, 32, 99, 32, 100,
                   32, 101, 32, 102, 32>> >>
    /\ result.emotion = "anger"
    /\ FLt(FMul(EMOTION_PROFILES["anger"].logic_clarity, result.confidence),
           Dec(0, 1, 1))
    /\ invoked[2] = [fn |-> "analyze",
                     args |-> <<FMul(EMOTION_PROFILES["anger"].emotion_intensity,
                                     result.confidence),
                                Dec(0, 1, 1)>>]

\* C16: when the engine returns a label that is not a key of
\* EMOTION_PROFILES, detect does not raise: it uses the neutral profile
\* (intensity 0.40, clarity 0.70) and returns a result carrying the label.
C16_UnknownLabel ==
    (Done("detect") /\ ~IsBlank(args[1])
        /\ NlpDetectEmotion(nlp, args[1]).emotion \notin
              {"joy", "sadness", "anger", "fear", "love", "neutral"}) =>
        LET nlp_result == NlpDetectEmotion(nlp, args[1])
            emotion_score == PyMax(FMul(Dec(0, 40, 2), nlp_result.confidence),
                                   Dec(0, 1, 1))
            logic_score == PyMax(FMul(Dec(0, 70, 2), nlp_result.confidence),
                                 Dec(0, 1, 1))
            expected == analyze(ratio, emotion_score, logic_score)
        IN  /\ result.emotion = nlp_result.emotion
            /\ result.confidence = nlp_result.confidence
            /\ invoked[2] = [fn |-> "analyze",
                             args |-> <<emotion_score, logic_score>>]
            /\ result.harmonic_score = expected.harmonic_score
            /\ result.balance_index = expected.balance_index
            /\ result.is_balanced = expected.is_balanced

C16_Witness ==
    /\ Done("detect")
    /\ nlp = CustomEngine("surprise", Dec(0, 8, 1))
    /\ args = << <<3604, 3637, 3651, 3592>> >>
    /\ result.emotion = "surprise"
    /\ invoked[2].args = <<FMul(Dec(0, 40, 2), Dec(0, 8, 1)),
                           FMul(Dec(0, 70, 2), Dec(0, 8, 1))>>

\* C17: detect_batch(texts) has the length of texts and its i-th element is
\* detect(texts[i]), empty items included, whatever the other items are.
C17_BatchIsPointwise ==
    Done("detect_batch") =>
        /\ Len(result) = Len(args[1])
        /\ \A i \in 1..Len(args[1]) :
               result[i] = DetectRun(EmotionDetector(nlp, ratio), args[1][i]).value

\* the batch ["ดีใจ", "", "ครับจ้านะ"]
C17_Witness ==
    /\ Done("detect_batch")
    /\ args = << << <<3604, 3637, 3651, 3592>>, <<>>,
                    <<3588, 3619, 3633, 3610, 3592, 3657, 3634, 3609, 3632>> >> >>
    /\ Len(result) = 3
    /\ result[1].emotion = "joy"
    /\ result[2].confidence = Zero
    /\ result[3].formality = "casual"

\* a suggestion: a direction and a magnitude in [0, 1]
IsSuggestion(v) ==
    /\ DOMAIN v = {"direction", "magnitude"}
    /\ v.direction \in {"increase_logic", "increase_emotion", "balanced"}
    /\ InUnit(v.magnitude)

\* C19 (as claimed): every result of detect, for any text, carries a
\* suggestion with direction in {increase_logic, increase_emotion, balanced}
\* and magnitude in [0, 1], and a formality in {formal, casual, neutral}.
C19_Original ==
    Done("detect") =>
        /\ IsSuggestion(result.adjustment_suggestion)
        /\ result.formality \in {"formal", "casual", "neutral"}

\* C19 (amended): the same for every text that is neither empty nor only
\* whitespace; for an empty or whitespace-only text the result has formality
\* neutral and no suggestion (adjustment_suggestion is None).
C19_SuggestionShape ==
    Done("detect") =>
        /\ result.formality \in {"formal", "casual", "neutral"}
        /\ ~IsBlank(args[1]) => IsSuggestion(result.adjustment_suggestion)
        /\ IsBlank(args[1]) =>
               result.adjustment_suggestion = None /\ result.formality = "neutral"

\* the text "ครับ"
C19_Witness ==
    /\ Done("detect")
    /\ args = << <<3588, 3619, 3633, 3610>> >>
    /\ result.formality = "formal"
    /\ IsSuggestion(result.adjustment_suggestion)
    /\ result.adjustment_suggestion.direction # "balanced"

\* what the call of o on a returns when no other call is in progress
Alone(o, a) ==
    CASE o = "detect" -> DetectRun(EmotionDetector(nlp, ratio), a[1]).value
      [] o = "detect_emotion" -> NlpDetectEmotion(nlp, a[1])
      [] o = "detect_formality" -> detect_formality(a[1])
      [] o = "analyze" -> analyze(ratio, a[1], a[2])
      [] o = "calculate_balance_index" -> calculate_balance_index(ratio, a[1], a[2])
      [] o = "suggest_adjustment" -> suggest_adjustment(ratio, a[1], a[2])

\* C18: detect, detect_emotion, detect_formality, analyze,
\* calculate_balance_index and suggest_adjustment never change the keyword
\* tables, the particle lists, EMOTION_PROFILES or the analyzer's
\* configuration, and under every interleaving of concurrent callers each
\* call returns what it returns when it runs alone.
C18_ThreadSafe ==
    /\ \A t \in Threads :
           callers[t].pc = "done" =>
               callers[t].result = Alone(callers[t].op, callers[t].args)
    /\ tables = ModuleTables
    /\ nlp = ThaiNLPEngine
    /\ ratio = GoldenRatioAnalyzer(PHI, Dec(0, 15, 2))

\* two calls of detect on different texts, the second entered while the
\* first was in progress, both returned
C18_Witness ==
    /\ callers[1].pc = "done" /\ callers[1].op = "detect"
    /\ callers[2].pc = "done" /\ callers[2].op = "detect"
    /\ callers[2].overlapped
    /\ callers[1].result.emotion = "joy"
    /\ callers[2].result.emotion = "anger"

\* the bearer token of the request verifies: it is a JWT signed with the
\* key, not expired, with a subject
Verifies(authorization) ==
    /\ authorization.scheme = "Bearer"
    /\ authorization.jwt
    /\ authorization.key = SECRET_KEY
    /\ ~authorization.expired
    /\ "sub" \in DOMAIN authorization.claims

\* C20: a request to /api/chat with no bearer token or with a token that
\* does not verify is answered 401 or 403 before the body of the handler
\* runs: no emotion detection, no FusionBrain processing, no change of the
\* personality's mood or interaction_count, no analytics record; and the
\* handler runs only with the user_id that is the subject of a verified
\* token.
C20_AuthBeforeHandler ==
    [][/\ (request.pc # "none" /\ ~Verifies(request.authorization)) =>
              /\ UNCHANGED <<namo, brain, analytics>>
              /\ request'.invoked = <<>>
              /\ request'.pc \in {"responded", "none"}
              /\ request'.pc = "responded" =>
                     /\ request'.response.status_code \in {401, 403}
                     /\ DOMAIN request'.response = {"status_code"}
       /\ (request.pc # "none" /\ request'.invoked # <<>>) =>
              /\ Verifies(request.authorization)
              /\ request'.invoked[2].fn = "process_request"
              /\ request'.invoked[2].args[2] = request.authorization.claims.sub
              /\ request'.invoked[4].fn = "_record_interaction"
              /\ request'.invoked[4].args[1] = request.authorization.claims.sub
              /\ request'.response.user_id = request.authorization.claims.sub
      ]_vars

\* after a chat that was let in, a request with a token signed with another
\* key has been answered 401
C20_Witness ==
    /\ request.pc = "responded"
    /\ request.authorization = BearerJwt([sub |-> "alice"], "another key", FALSE)
    /\ request.response = [status_code |-> 401]
    /\ request.invoked = <<>>
    /\ namo.interaction_count = 1
    /\ Len(analytics) = 1

\* C21 (as claimed): every /api/chat request of an authenticated user whose
\* message is empty once its whitespace is stripped, or longer than 2000
\* characters, is answered 422 (unless the rate limiter answers first) and
\* causes no processing: the body of the handler does not run.
C21_EmptyMessageRejected ==
    (/\ request.pc = "responded"
     /\ Verifies(request.authorization)
     /\ request.response.status_code # 429
     /\ \/ Strip(request.message) = <<>>
        \/ Len(request.message) > MAX_MESSAGE_LENGTH) =>
        /\ request.response.status_code = 422
        /\ request.invoked = <<>>

\* the mood the claim gives for an emotion
MoodOf(emotion, default_mood) ==
    CASE emotion = "joy" -> "cheerful"
      [] emotion = "love" -> "loving"
      [] emotion \in {"sadness", "anger", "fear"} -> "calm"
      [] OTHER -> default_mood

\* C22: after any sequence of generate_response calls the mood is the one of
\* the last call's emotion (joy: cheerful, love: loving, sadness, anger and
\* fear: calm, neutral or unknown: the configured default), the
\* PersonalityResponse returned carries that mood, and under the default
\* configuration it is one of cheerful, calm, loving, playful, serious.
C22_MoodFollowsLastEmotion ==
    /\ Done("generate_response") =>
           /\ namo.mood = MoodOf(args[2], namo.config.default_mood)
           /\ result.mood = namo.mood
    /\ namo.config = PersonalityConfig =>
           namo.mood \in {"cheerful", "calm", "loving", "playful", "serious"}

\* an unknown emotion has brought the mood back from another one to the
\* configured default, which is not the default configuration's
C22_Witness ==
    /\ Done("generate_response")
    /\ args[2] = "surprise"
    /\ namo.config.default_mood = "serious"
    /\ namo.mood = "serious"
    /\ namo.mood_history = <<"serious", "calm">>
    /\ namo.interaction_count = 2

\* C23: interaction_count is 0 at construction, every generate_response call
\* raises it by exactly one, and nothing else (get_greeting, get_state)
\* changes it or the mood: it is the number of generate_response calls so far.
C23_InteractionCount ==
    /\ namo.interaction_count = 0
    /\ [][IF pc = "idle" /\ op' = "generate_response"
          THEN namo'.interaction_count = namo.interaction_count + 1
          ELSE /\ namo'.interaction_count = namo.interaction_count
               /\ namo'.mood = namo.mood]_vars

\* a greeting has been asked for after two responses
C23_Witness ==
    /\ Done("get_greeting")
    /\ namo.interaction_count = 2
    /\ namo.mood = "loving"
    /\ result = [greeting |-> "loving"]

\* C24: the master unlock flag is a one-way latch: False at construction;
\* a process call whose input contains UNLOCK_FUSION sets it and returns
\* harmonic_score 1.0 with the override reply; every other process call
\* leaves it as it was; once True it stays True.
C24_UnlockLatch ==
    /\ ~brain.flags.UNLOCK_FUSION_NSFWRP_MODE
    /\ [][/\ brain.flags.UNLOCK_FUSION_NSFWRP_MODE =>
                 brain'.flags.UNLOCK_FUSION_NSFWRP_MODE
          /\ IF pc = "idle" /\ op' = "process"
                /\ Contains(args'[1], UNLOCK_FUSION)
             THEN /\ brain'.flags.UNLOCK_FUSION_NSFWRP_MODE
                  /\ result'.harmonic_score = One
                  /\ result'.reply = [text |-> "System Overridden"]
             ELSE brain'.flags.UNLOCK_FUSION_NSFWRP_MODE =
                      brain.flags.UNLOCK_FUSION_NSFWRP_MODE]_vars

\* the unlock sequence has been processed again by a brain already
\* unlocked, whose arousal later calls had raised
C24_Witness ==
    /\ Done("process")
    /\ Contains(args[1], UNLOCK_FUSION)
    /\ args[1] # UNLOCK_FUSION
    /\ brain.flags.UNLOCK_FUSION_NSFWRP_MODE
    /\ brain.arousal = 20
    /\ result.harmonic_score = One

\* C25: analyze is safe on every input: for any text and context, None
\* included, it returns exactly the keys emotion, logic, combined, confidence
\* and strategy, the four numbers in [0, 1] and the strategy one of
\* emotion_driven, logic_driven, balanced; for an empty or whitespace-only
\* text (or None) the four numbers are 0.0.
C25_AnalyzeIsSafe ==
    Done("analyze_text") =>
        /\ DOMAIN result = {"emotion", "logic", "combined", "confidence", "strategy"}
        /\ InUnit(result.emotion) /\ InUnit(result.logic)
        /\ InUnit(result.combined) /\ InUnit(result.confidence)
        /\ result.strategy \in {"emotion_driven", "logic_driven", "balanced"}
        /\ (args[1] = None \/ Strip(args[1].str) = <<>>) =>
               /\ result.emotion = Zero /\ result.logic = Zero
               /\ result.combined = Zero /\ result.confidence = Zero

\* a text with three keywords and an exclamation mark, whose intensity is
\* capped, analyzed without a context
C25_Witness ==
    /\ Done("analyze_text")
    /\ args[2] = None
    /\ args[1] # None
    /\ Contains(args[1].str, <<33>>)
    /\ result.emotion = One
    /\ result.strategy = "emotion_driven"

\* every value under a key of REDACT_FIELDS, at any depth of dicts and
\* lists, is "[REDACTED]"
RECURSIVE AllRedacted(_)
AllRedacted(node) ==
    IF IsDict(node)
    THEN \A i \in 1..Len(node.dict) :
             IF node.dict[i].key \in REDACT_FIELDS
             THEN node.dict[i].value = REDACTED
             ELSE AllRedacted(node.dict[i].value)
    ELSE IF IsList(node)
    THEN \A i \in 1..Len(node.list) : AllRedacted(node.list[i])
    ELSE TRUE

\* after is before but for the values under the keys of REDACT_FIELDS
RECURSIVE SameElsewhere(_, _)
SameElsewhere(before, after) ==
    IF IsDict(before)
    THEN /\ IsDict(after)
         /\ Len(after.dict) = Len(before.dict)
         /\ \A i \in 1..Len(before.dict) :
                /\ after.dict[i].key = before.dict[i].key
                /\ before.dict[i].key \notin REDACT_FIELDS =>
                       SameElsewhere(before.dict[i].value, after.dict[i].value)
    ELSE IF IsList(before)
    THEN /\ IsList(after)
         /\ Len(after.list) = Len(before.list)
         /\ \A i \in 1..Len(before.list) :
                SameElsewhere(before.list[i], after.list[i])
    ELSE after = before

\* C26: anonymize_conversation returns a copy of its input in which every
\* key of REDACT_FIELDS, at any nesting depth of dicts and lists, has the
\* value "[REDACTED]" and every other value is unchanged; the input is not
\* modified.
C26_Redacted ==
    Done("anonymize_conversation") =>
        /\ AllRedacted(result.value)
        /\ SameElsewhere(args[1], result.value)
        /\ result.conversation = args[1]

\* a conversation whose list of messages holds a dict with an email, three
\* containers deep, next to values that are kept
C26_Witness ==
    /\ Done("anonymize_conversation")
    /\ args[1] = Dict(<<[key |-> "messages",
                        value |-> List(<<Str(<<97>>),
                                         Dict(<<[key |-> "email", value |-> Str(<<97>>)],
                                                [key |-> "name", value |-> Str(<<97>>)]>>)>>)]>>)
    /\ result.value # args[1]

\* C27 (as claimed): the two views of balance agree for every pair of
\* scores, those outside [0, 1] included: suggest_adjustment(e, l) has the
\* direction balanced exactly when analyze(e, l) is balanced, increase_logic
\* only when the balance_index of analyze(e, l) is positive and
\* increase_emotion only when it is negative.
C27_ViewsAgree ==
    Done("suggest_adjustment") =>
        LET analysis == analyze(ratio, args[1], args[2])
        IN  /\ result.direction = "balanced" <=> analysis.is_balanced
            /\ result.direction = "increase_logic" =>
                   FGt(analysis.balance_index, Zero)
            /\ result.direction = "increase_emotion" =>
                   FLt(analysis.balance_index, Zero)

\* the user of the request has had one chat answered: the one in progress
FirstChatOfUser ==
    /\ request.pc = "responded"
    /\ request.response.status_code = 200
    /\ \E i \in 1..Len(analytics) :
           /\ analytics[i].user_id = request.principal.user_id
           /\ Len(analytics[i].interactions) = 1

\* C28 (as claimed), for the first chat of a user: the chat requests of one
\* user do not influence the responses to another, so the text and the
\* emotion of the response are those a brain that has served nobody else
\* gives to the message, whatever the other users have sent before.
C28_UsersIsolated ==
    FirstChatOfUser =>
        /\ request.response.response =
               process(FusionBrain, request.chat_request.message,
                       request.principal.user_id, Zero, Zero).value.reply
        /\ request.response.emotion =
               detect(EmotionDetector(nlp, ratio),
                      request.chat_request.message).emotion

\* the number of keywords of category c matched in a text, and the number of
\* tokens the confidence divides by
HitCount(text, c) ==
    LET normalized == normalize(text)
        tokens == tokenize(normalized)
    IN  Len(Matched(THAI_EMOTION_KEYWORDS[c].keywords, normalized,
                    [i \in 1..Len(tokens) |-> Lower(tokens[i])]))

TokenCount(text) ==
    LET tokens == tokenize(normalize(text))
    IN  IF Len(tokens) > 1 THEN Len(tokens) ELSE 1

Categories == 1..Len(THAI_EMOTION_KEYWORDS)

\* C29 (as claimed): whenever some category has a keyword hit, detect_emotion
\* returns the earliest of the categories with the greatest number of matched
\* keywords, also when several confidences are capped at 1.0.
C29_MostHits ==
    Done("detect_emotion") =>
        \A c \in Categories :
            (/\ HitCount(args[1], c) > 0
             /\ \A d \in Categories : HitCount(args[1], d) <= HitCount(args[1], c)
             /\ \A d \in 1..(c - 1) : HitCount(args[1], d) < HitCount(args[1], c)) =>
                result.emotion = THAI_EMOTION_KEYWORDS[c].emotion

\* twice the hits of a category, capped at the number of tokens: the order
\* of the confidences min(hits / tokens * 2.0, 1.0)
CappedHits(text, c) ==
    IF 2 * HitCount(text, c) < TokenCount(text) THEN 2 * HitCount(text, c)
    ELSE TokenCount(text)

\* C29 (amended): whenever some category has a keyword hit, detect_emotion
\* returns the earliest of the categories with the greatest capped count
\* min(2 * hits, tokens); it is a category with the most matched keywords
\* when no category reaches the cap (2 * hits < tokens for all of them), and
\* need not be when several do.
C29_MostCappedHits ==
    Done("detect_emotion") =>
        \A c \in Categories :
            (/\ HitCount(args[1], c) > 0
             /\ \A d \in Categories : CappedHits(args[1], d) <= CappedHits(args[1], c)
             /\ \A d \in 1..(c - 1) : CappedHits(args[1], d) < CappedHits(args[1], c)) =>
                /\ result.emotion = THAI_EMOTION_KEYWORDS[c].emotion
                /\ 2 * HitCount(args[1], c) < TokenCount(args[1]) =>
                       \A d \in Categories :
                           HitCount(args[1], d) <= HitCount(args[1], c)

\* one token with one keyword of joy and two of love: both confidences are
\* capped and joy, the earlier category, is returned
C29_Witness ==
    /\ Done("detect_emotion")
    /\ args = << <<3604, 3637, 3651, 3592, 3607, 3637, 3656, 3619, 3633, 3585>> >>
    /\ HitCount(args[1], 1) = 1
    /\ HitCount(args[1], 5) = 2
    /\ result.emotion = "joy"
    /\ result.confidence = One

\* s is the beginning of t
IsPrefix(s, t) == Len(s) <= Len(t) /\ s = SubSeq(t, 1, Len(s))

C30_RetriesBounded ==
    /\ nre.given = 0 =>
           /\ nre.invocations <= 6
           /\ IsPrefix(nre.slept, <<1, 1, 2, 3, 5>>)
           /\ nre.pc = "returned" => Len(nre.slept) = nre.invocations - 1
           /\ nre.pc = "raised" =>
                  nre.invocations = 6 /\ nre.outcome = [raise |-> "Exception"]
    /\ (Done("fibonacci_backoff") /\ args[1] >= 0) =>
           /\ result # IndexError
           /\ result.value <= 13
           /\ \A earlier \in 0..args[1] :
                  /\ fibonacci_backoff(earlier) # IndexError
                  /\ fibonacci_backoff(earlier).value <= result.value

=============================================================================
